---- MODULE Spec2Model ----
(***************************************************************************)
(* Authorization and permission engine of the l2l backend: the principal   *)
(* store, the route-permission registry, the enforcement middleware        *)
(* (checkPermission), the super-admin guard, the Express permission        *)
(* middlewares and the product handlers they protect.                      *)
(***************************************************************************)
EXTENDS Integers, Sequences, FiniteSets, TLC

\* ---------------------------------------------------------------- bounds
MaxPrice == 2
MaxStock == 1
MaxPercent == 2
MaxAmount == 2
MaxAdded == 2
MaxSegs == 4

\* ------------------------------------------------------------ vocabulary
Roles == {"super_admin", "admin", "manager", "staff"}
NoRole == "none"
PermVals == {"absent", "false", "true"}

\* capability pairs the principal store varies over in the model; every
\* other pair of the catalog is absent from featurePermissions
StoredCaps ==
  { <<"inventory", "canAddProducts">>,
    <<"inventory", "canDeleteProducts">>,
    <<"inventory", "canEditProducts">>,
    <<"inventory", "canEditCostPrices">>,
    <<"inventory", "canManageStock">> }

\* the pairs the user-management actions of Spec change
SpecCaps ==
  { <<"inventory", "canAddProducts">>,
    <<"inventory", "canDeleteProducts">> }

\* a pair of the catalog no modelled principal is ever granted
ReportsCap == <<"reports", "canViewFinancialReports">>

NoGrants == [c \in StoredCaps |-> "absent"]

\* the discountPermissions of a user document without discount grants
NoDiscountGrants ==
  [canApplyProductDiscounts |-> FALSE, canApplyBillDiscounts |-> FALSE,
   maxDiscountPercent |-> 0, maxDiscountAmount |-> 0,
   unlimitedDiscounts |-> FALSE]

\* the stock fields of a product document that was not read
NoStock == [currentStock |-> 0, totalQuantity |-> 0]

NoUser == [exists |-> FALSE, role |-> "staff", isActive |-> FALSE,
           featurePermissions |-> NoGrants,
           discountPermissions |-> NoDiscountGrants]

\* the stored transaction of the request's id; "" is a field that is not set
NoTransaction ==
  [exists |-> FALSE, type |-> "", status |-> "", paymentStatus |-> "",
   createdBy |-> ""]

Methods == {"GET", "POST", "PUT", "DELETE"}

ProductsPath   == <<"", "api", "inventory", "products">>
ProductIdPath  == <<"", "api", "inventory", "products", "42">>
ProductSubPath == <<"", "api", "inventory", "products", "42", "stock">>
BulkDeletePath == <<"", "api", "inventory", "products", "bulk-delete">>
LoginPath      == <<"", "api", "auth", "login">>
CreateAdminPath == <<"", "api", "auth", "create-admin">>
HealthPath     == <<"", "api", "health">>
UserIdPath     == <<"", "api", "users", "7">>

Paths == { ProductsPath, ProductIdPath, ProductSubPath, BulkDeletePath,
           LoginPath, CreateAdminPath, HealthPath, UserIdPath }

\* identity headers of a request: none, only x-user-id, or both
Headers == {"none", "idOnly", "full"}

VARIABLES user, tokenRole, product, last, registry, inflight, transaction,
          targetUser
vars == <<user, tokenRole, product, last, registry, inflight, transaction,
          targetUser>>

\* ------------------------------------------------------------- responses
Null == [status |-> 0, code |-> "", category |-> "", permission |-> ""]
Resp(status, code) ==
  [status |-> status, code |-> code, category |-> "", permission |-> ""]
RespRequired(status, code, category, permission) ==
  [status |-> status, code |-> code, category |-> category,
   permission |-> permission]

\* -------------------------------------------------- permission evaluator
Lookup(fp, category, permission) ==
  IF <<category, permission>> \in DOMAIN fp
    THEN fp[<<category, permission>>] ELSE "absent"

hasPermission(u, category, permission) ==
  IF u.role = "super_admin" THEN TRUE
  ELSE Lookup(u.featurePermissions, category, permission) = "true"

\* ------------------------------------------------ route-permission table
NoRoles == {}
Rule(method, path, category, permission) ==
  [method |-> method, path |-> path, category |-> category,
   permission |-> permission, requiresRole |-> NoRoles]
RoleRule(method, path, roles) ==
  [method |-> method, path |-> path, category |-> "",
   permission |-> "", requiresRole |-> roles]
NoConfig == [method |-> "", path |-> <<>>, category |-> "",
             permission |-> "", requiresRole |-> NoRoles]

routePermissions == <<
    Rule("GET", <<"", "api", "users">>, "userManagement", "canViewAuditLogs"),
    Rule("POST", <<"", "api", "users">>, "userManagement", "canCreateUsers"),
    Rule("PUT", <<"", "api", "users", "[id]">>, "userManagement", "canEditUsers"),
    Rule("DELETE", <<"", "api", "users", "[id]">>, "userManagement", "canDeleteUsers"),
    Rule("POST", <<"", "api", "users", "[id]", "reset-password">>, "userManagement", "canResetPasswords"),
    Rule("GET", <<"", "api", "users", "audit-logs">>, "userManagement", "canViewAuditLogs"),
    Rule("GET", <<"", "api", "inventory", "products">>, "inventory", "canAddProducts"),
    Rule("POST", <<"", "api", "inventory", "products">>, "inventory", "canAddProducts"),
    Rule("PUT", <<"", "api", "inventory", "products", "[id]">>, "inventory", "canEditProducts"),
    Rule("DELETE", <<"", "api", "inventory", "products", "[id]">>, "inventory", "canDeleteProducts"),
    Rule("POST", <<"", "api", "inventory", "products", "add-stock">>, "inventory", "canManageStock"),
    Rule("POST", <<"", "api", "inventory", "restock">>, "inventory", "canCreateRestockOrders"),
    Rule("POST", <<"", "api", "inventory", "restock", "bulk">>, "inventory", "canBulkOperations"),
    Rule("GET", <<"", "api", "transactions">>, "transactions", "canCreateTransactions"),
    Rule("POST", <<"", "api", "transactions">>, "transactions", "canCreateTransactions"),
    Rule("PUT", <<"", "api", "transactions", "[id]">>, "transactions", "canEditTransactions"),
    Rule("DELETE", <<"", "api", "transactions", "[id]">>, "transactions", "canDeleteTransactions"),
    Rule("GET", <<"", "api", "transactions", "[id]", "invoice">>, "transactions", "canCreateTransactions"),
    Rule("GET", <<"", "api", "patients">>, "patients", "canAccessAllPatients"),
    Rule("POST", <<"", "api", "patients">>, "patients", "canCreatePatients"),
    Rule("PUT", <<"", "api", "patients", "[id]">>, "patients", "canEditPatients"),
    Rule("DELETE", <<"", "api", "patients", "[id]">>, "patients", "canDeletePatients"),
    Rule("POST", <<"", "api", "patients", "bulk-delete">>, "patients", "canDeletePatients"),
    Rule("GET", <<"", "api", "bundles">>, "bundles", "canCreateBundles"),
    Rule("POST", <<"", "api", "bundles">>, "bundles", "canCreateBundles"),
    Rule("PUT", <<"", "api", "bundles", "[id]">>, "bundles", "canEditBundles"),
    Rule("DELETE", <<"", "api", "bundles", "[id]">>, "bundles", "canDeleteBundles"),
    Rule("POST", <<"", "api", "bundles", "calculate-pricing">>, "bundles", "canSetPricing"),
    Rule("GET", <<"", "api", "bundles", "stats">>, "bundles", "canCreateBundles"),
    Rule("GET", <<"", "api", "reports", "item-sales">>, "reports", "canViewFinancialReports"),
    Rule("GET", <<"", "api", "dashboard", "stats">>, "reports", "canViewInventoryReports"),
    Rule("GET", <<"", "api", "admin", "security-metrics">>, "security", "canViewSecurityLogs"),
    Rule("GET", <<"", "api", "customers">>, "patients", "canAccessAllPatients"),
    Rule("POST", <<"", "api", "customers">>, "patients", "canCreatePatients"),
    Rule("GET", <<"", "api", "appointments">>, "appointments", "canViewAllAppointments"),
    Rule("POST", <<"", "api", "appointments">>, "appointments", "canCreateAppointments"),
    RoleRule("POST", <<"", "api", "auth", "create-admin">>, {"super_admin"})
>>

\* segments of the vocabulary that start with '['
IsPlaceholder(seg) == seg \in {"[id]", "[slug]"}

\* the loop of matchesPattern over the segments, from position i on
RECURSIVE matchesFrom(_, _, _)
matchesFrom(pathParts, patternParts, i) ==
  IF i > Len(pathParts) THEN TRUE
  ELSE IF patternParts[i] # pathParts[i] /\ ~IsPlaceholder(patternParts[i])
    THEN FALSE
  ELSE matchesFrom(pathParts, patternParts, i + 1)

\* variant: the segment counts are not compared, the pattern is a prefix
matchesPattern_prefix(path, pattern) ==
  IF Len(path) < Len(pattern) THEN FALSE
  ELSE matchesFrom(SubSeq(path, 1, Len(pattern)), pattern, 1)

matchesPattern(path, pattern) ==
  IF Len(path) # Len(pattern) THEN FALSE
  ELSE matchesFrom(path, pattern, 1)

\* the loop of getRoutePermission over Object.entries, from entry i on
RECURSIVE firstPatternMatch(_, _, _)
firstPatternMatch(method, pathname, i) ==
  IF i > Len(registry) THEN NoConfig
  ELSE IF /\ registry[i].method = method
          /\ matchesPattern(pathname, registry[i].path)
    THEN registry[i]
  ELSE firstPatternMatch(method, pathname, i + 1)

\* the entry stored under the key "method pathname", if any
exactEntry(method, pathname) ==
  { i \in 1..Len(registry) :
      registry[i].method = method /\ registry[i].path = pathname }

\* variant: the pattern loop runs before the lookup of the exact key
getRoutePermission_patternFirst(method, pathname) ==
  LET found == firstPatternMatch(method, pathname, 1)
      exact == exactEntry(method, pathname)
  IN  IF found # NoConfig THEN found
      ELSE IF exact # {} THEN registry[CHOOSE i \in exact : TRUE]
      ELSE NoConfig

getRoutePermission(method, pathname) ==
  LET exact == exactEntry(method, pathname)
  IN  IF exact # {} THEN registry[CHOOSE i \in exact : TRUE]
      ELSE firstPatternMatch(method, pathname, 1)

StartsWithHealth(seg) == seg \in {"health", "healthz"}

skipPermissionCheck(pathname) ==
  \/ /\ Len(pathname) >= 4
     /\ pathname[1] = "" /\ pathname[2] = "api" /\ pathname[3] = "auth"
  \/ /\ Len(pathname) >= 3
     /\ pathname[1] = "" /\ pathname[2] = "api"
     /\ StartsWithHealth(pathname[3])

\* ------------------------------------------------ enforcement middleware
Out(resp, steps) == [resp |-> resp, steps |-> steps]

\* variant: only the user id is required, the role header is not checked
checkPermission_idOnly(method, pathname, userId, userRole, storeOk, dbUser) ==
  IF skipPermissionCheck(pathname) THEN Out(Null, <<>>)
  ELSE IF userId = NoRole
    THEN Out(Resp(401, "USER_INFO_MISSING"), <<>>)
  ELSE IF userRole = "super_admin" THEN Out(Null, <<>>)
  ELSE LET permissionConfig == getRoutePermission(method, pathname) IN
    IF permissionConfig = NoConfig THEN Out(Null, <<"lookup">>)
    ELSE IF ~storeOk
      THEN Out(Resp(500, "PERMISSION_CHECK_ERROR"), <<"lookup", "storeRead">>)
    ELSE IF ~dbUser.exists
      THEN Out(Resp(401, "USER_NOT_FOUND"), <<"lookup", "storeRead">>)
    ELSE IF /\ permissionConfig.requiresRole # NoRoles
            /\ dbUser.role \notin permissionConfig.requiresRole
      THEN Out(Resp(403, "INSUFFICIENT_ROLE"), <<"lookup", "storeRead">>)
    ELSE IF /\ permissionConfig.category # ""
            /\ permissionConfig.permission # ""
            /\ ~hasPermission(dbUser, permissionConfig.category,
                              permissionConfig.permission)
      THEN Out(RespRequired(403, "INSUFFICIENT_PERMISSIONS",
                            permissionConfig.category,
                            permissionConfig.permission),
               <<"lookup", "storeRead", "evaluate">>)
    ELSE Out(Null,
             IF permissionConfig.category # "" /\ permissionConfig.permission # ""
               THEN <<"lookup", "storeRead", "evaluate">>
               ELSE <<"lookup", "storeRead">>)

\* variant: the catch block lets the request continue
checkPermission_failOpen(method, pathname, userId, userRole, storeOk, dbUser) ==
  IF skipPermissionCheck(pathname) THEN Out(Null, <<>>)
  ELSE IF userId = NoRole \/ userRole = NoRole
    THEN Out(Resp(401, "USER_INFO_MISSING"), <<>>)
  ELSE IF userRole = "super_admin" THEN Out(Null, <<>>)
  ELSE LET permissionConfig == getRoutePermission(method, pathname) IN
    IF permissionConfig = NoConfig THEN Out(Null, <<"lookup">>)
    ELSE IF ~storeOk THEN Out(Null, <<"lookup", "storeRead">>)
    ELSE IF ~dbUser.exists
      THEN Out(Resp(401, "USER_NOT_FOUND"), <<"lookup", "storeRead">>)
    ELSE IF /\ permissionConfig.requiresRole # NoRoles
            /\ dbUser.role \notin permissionConfig.requiresRole
      THEN Out(Resp(403, "INSUFFICIENT_ROLE"), <<"lookup", "storeRead">>)
    ELSE IF /\ permissionConfig.category # ""
            /\ permissionConfig.permission # ""
            /\ ~hasPermission(dbUser, permissionConfig.category,
                              permissionConfig.permission)
      THEN Out(RespRequired(403, "INSUFFICIENT_PERMISSIONS",
                            permissionConfig.category,
                            permissionConfig.permission),
               <<"lookup", "storeRead", "evaluate">>)
    ELSE Out(Null,
             IF permissionConfig.category # "" /\ permissionConfig.permission # ""
               THEN <<"lookup", "storeRead", "evaluate">>
               ELSE <<"lookup", "storeRead">>)

\* variant: a route without a rule is denied
checkPermission_denyUnmatched(method, pathname, userId, userRole, storeOk, dbUser) ==
  IF skipPermissionCheck(pathname) THEN Out(Null, <<>>)
  ELSE IF userId = NoRole \/ userRole = NoRole
    THEN Out(Resp(401, "USER_INFO_MISSING"), <<>>)
  ELSE IF userRole = "super_admin" THEN Out(Null, <<>>)
  ELSE LET permissionConfig == getRoutePermission(method, pathname) IN
    IF permissionConfig = NoConfig
      THEN Out(Resp(403, "INSUFFICIENT_PERMISSIONS"), <<"lookup">>)
    ELSE IF ~storeOk
      THEN Out(Resp(500, "PERMISSION_CHECK_ERROR"), <<"lookup", "storeRead">>)
    ELSE IF ~dbUser.exists
      THEN Out(Resp(401, "USER_NOT_FOUND"), <<"lookup", "storeRead">>)
    ELSE IF /\ permissionConfig.requiresRole # NoRoles
            /\ dbUser.role \notin permissionConfig.requiresRole
      THEN Out(Resp(403, "INSUFFICIENT_ROLE"), <<"lookup", "storeRead">>)
    ELSE IF /\ permissionConfig.category # ""
            /\ permissionConfig.permission # ""
            /\ ~hasPermission(dbUser, permissionConfig.category,
                              permissionConfig.permission)
      THEN Out(RespRequired(403, "INSUFFICIENT_PERMISSIONS",
                            permissionConfig.category,
                            permissionConfig.permission),
               <<"lookup", "storeRead", "evaluate">>)
    ELSE Out(Null,
             IF permissionConfig.category # "" /\ permissionConfig.permission # ""
               THEN <<"lookup", "storeRead", "evaluate">>
               ELSE <<"lookup", "storeRead">>)

checkPermission(method, pathname, userId, userRole, storeOk, dbUser) ==
  IF skipPermissionCheck(pathname) THEN Out(Null, <<>>)
  ELSE IF userId = NoRole \/ userRole = NoRole
    THEN Out(Resp(401, "USER_INFO_MISSING"), <<>>)
  ELSE IF userRole = "super_admin" THEN Out(Null, <<>>)
  ELSE LET permissionConfig == getRoutePermission(method, pathname) IN
    IF permissionConfig = NoConfig THEN Out(Null, <<"lookup">>)
    ELSE IF ~storeOk
      THEN Out(Resp(500, "PERMISSION_CHECK_ERROR"), <<"lookup", "storeRead">>)
    ELSE IF ~dbUser.exists
      THEN Out(Resp(401, "USER_NOT_FOUND"), <<"lookup", "storeRead">>)
    ELSE IF /\ permissionConfig.requiresRole # NoRoles
            /\ dbUser.role \notin permissionConfig.requiresRole
      THEN Out(Resp(403, "INSUFFICIENT_ROLE"), <<"lookup", "storeRead">>)
    ELSE IF /\ permissionConfig.category # ""
            /\ permissionConfig.permission # ""
            /\ ~hasPermission(dbUser, permissionConfig.category,
                              permissionConfig.permission)
      THEN Out(RespRequired(403, "INSUFFICIENT_PERMISSIONS",
                            permissionConfig.category,
                            permissionConfig.permission),
               <<"lookup", "storeRead", "evaluate">>)
    ELSE Out(Null,
             IF permissionConfig.category # "" /\ permissionConfig.permission # ""
               THEN <<"lookup", "storeRead", "evaluate">>
               ELSE <<"lookup", "storeRead">>)

\* ------------------------------------------------------ principal resolver
AuthFailed == [success |-> FALSE, threw |-> FALSE, user |-> NoUser]
AuthThrew  == [success |-> FALSE, threw |-> TRUE, user |-> NoUser]

getAuthUser(session, storeOk, stored) ==
  IF ~session THEN AuthFailed
  ELSE IF ~storeOk THEN AuthThrew
  ELSE IF ~stored.exists \/ ~stored.isActive THEN AuthFailed
  ELSE [success |-> TRUE, threw |-> FALSE, user |-> stored]

\* ------------------------------------------------------ super-admin guard
FEATURE_PERMISSION_MAP ==
  [ cost_price_edit      |-> <<"inventory", "canEditCostPrices">>,
    package_pricing      |-> <<"bundles", "canManageBundlePricing">>,
    inventory_management |-> <<"inventory", "canManageStock">>,
    product_management   |-> <<"inventory", "canAddProducts">>,
    reports              |-> <<"reports", "canViewFinancialReports">>,
    supplier_management  |-> <<"suppliers", "canAddSuppliers">>,
    fixed_blends         |-> <<"blends", "canCreateFixedBlends">> ]

Features == {"cost_price_edit", "product_management", "reports", "unknown_feature"}

\* actionPermissionMap of hasSuperAdminFeatureAccess; "" where the map has
\* no entry and featureConfig.permission is used
FeatureActions == {"create", "read", "update", "delete"}
actionPermissionMap(feature, action) ==
  IF feature = "inventory_management" THEN
    CASE action = "create" -> "canAddProducts"
      [] action = "update" -> "canManageStock"
      [] action = "delete" -> "canDeleteProducts"
      [] OTHER -> ""
  ELSE IF feature = "product_management" THEN
    CASE action = "create" -> "canAddProducts"
      [] action = "update" -> "canEditProducts"
      [] action = "delete" -> "canDeleteProducts"
      [] OTHER -> ""
  ELSE IF feature = "supplier_management" THEN
    CASE action = "create" -> "canAddSuppliers"
      [] action = "update" -> "canEditSuppliers"
      [] action = "delete" -> "canDeleteSuppliers"
      [] OTHER -> "canViewSuppliers"
  ELSE IF feature = "fixed_blends" THEN
    CASE action = "create" -> "canCreateFixedBlends"
      [] action = "update" -> "canEditFixedBlends"
      [] action = "delete" -> "canDeleteFixedBlends"
      [] OTHER -> "canViewFixedBlends"
  ELSE ""

hasSuperAdminFeatureAccess(hasUser, u, feature, action) ==
  IF ~hasUser THEN FALSE
  ELSE IF u.role = "super_admin" THEN TRUE
  ELSE IF feature \notin DOMAIN FEATURE_PERMISSION_MAP THEN FALSE
  ELSE LET featureConfig == FEATURE_PERMISSION_MAP[feature]
           specificPermission ==
             IF actionPermissionMap(feature, action) # ""
               THEN actionPermissionMap(feature, action)
               ELSE featureConfig[2]
       IN hasPermission(u, featureConfig[1], specificPermission)

\* variant: without the super_admin shortcut
requireSuperAdminAccess_noTopRole(authResult, feature) ==
  IF authResult.threw
    THEN Out(Resp(500, "AUTH_CHECK_FAILED"), <<"storeRead">>)
  ELSE IF ~authResult.success THEN Out(Resp(401, "AUTH_REQUIRED"), <<>>)
  ELSE IF feature \notin DOMAIN FEATURE_PERMISSION_MAP
    THEN Out(Resp(500, "CONFIG_ERROR"), <<"storeRead">>)
  ELSE IF ~hasPermission(authResult.user, FEATURE_PERMISSION_MAP[feature][1],
                         FEATURE_PERMISSION_MAP[feature][2])
    THEN Out(Resp(403, "SUPER_ADMIN_REQUIRED"), <<"storeRead", "evaluate">>)
  ELSE Out(Null, <<"storeRead", "evaluate">>)

requireSuperAdminAccess(authResult, feature) ==
  IF authResult.threw
    THEN Out(Resp(500, "AUTH_CHECK_FAILED"), <<"storeRead">>)
  ELSE IF ~authResult.success THEN Out(Resp(401, "AUTH_REQUIRED"), <<>>)
  ELSE IF authResult.user.role = "super_admin" THEN Out(Null, <<"storeRead">>)
  ELSE IF feature \notin DOMAIN FEATURE_PERMISSION_MAP
    THEN Out(Resp(500, "CONFIG_ERROR"), <<"storeRead">>)
  ELSE IF ~hasPermission(authResult.user, FEATURE_PERMISSION_MAP[feature][1],
                         FEATURE_PERMISSION_MAP[feature][2])
    THEN Out(Resp(403, "SUPER_ADMIN_REQUIRED"), <<"storeRead", "evaluate">>)
  ELSE Out(Null, <<"storeRead", "evaluate">>)

\* variant: the wrapper does not return on error
withSuperAdminProtection_alwaysRuns(guard, handlerResp) ==
  [resp |-> guard.resp, handlerRan |-> TRUE, handlerResp |-> handlerResp]

\* the wrapper calls the handler only when the guard returned a user
withSuperAdminProtection(guard, handlerResp) ==
  IF guard.resp # Null
    THEN [resp |-> guard.resp, handlerRan |-> FALSE, handlerResp |-> Null]
    ELSE [resp |-> Null, handlerRan |-> TRUE, handlerResp |-> handlerResp]

\* ------------------------------------------------------ Express middlewares
Tokens == {"none", "invalid", "valid"}

authenticateToken(token, storeOk, stored) ==
  IF token = "none" THEN [resp |-> Resp(401, "Access token required"), next |-> FALSE, steps |-> <<>>]
  ELSE IF token = "invalid" THEN [resp |-> Resp(401, "Invalid token"), next |-> FALSE, steps |-> <<>>]
  ELSE IF ~storeOk THEN [resp |-> Resp(500, "Authentication failed"), next |-> FALSE, steps |-> <<"storeRead">>]
  ELSE IF ~stored.exists THEN [resp |-> Resp(401, "User not found"), next |-> FALSE, steps |-> <<"storeRead">>]
  ELSE [resp |-> Null, next |-> TRUE, steps |-> <<"storeRead">>]

\* variant: the admin role passes without an explicit grant
requirePermission_roleGrant(hasUser, reqUser, category, permission) ==
  IF ~hasUser THEN [resp |-> Resp(401, "Not authenticated"), next |-> FALSE, steps |-> <<>>]
  ELSE IF reqUser.role # "admin" /\ ~hasPermission(reqUser, category, permission)
    THEN [resp |-> RespRequired(403, "Permission denied", category, permission),
          next |-> FALSE, steps |-> <<"evaluate">>]
  ELSE [resp |-> Null, next |-> TRUE, steps |-> <<"evaluate">>]

requirePermission(hasUser, reqUser, category, permission) ==
  IF ~hasUser THEN [resp |-> Resp(401, "Not authenticated"), next |-> FALSE, steps |-> <<>>]
  ELSE IF ~hasPermission(reqUser, category, permission)
    THEN [resp |-> RespRequired(403, "Permission denied", category, permission),
          next |-> FALSE, steps |-> <<"evaluate">>]
  ELSE [resp |-> Null, next |-> TRUE, steps |-> <<"evaluate">>]

\* ------------------------------------------------------------ transactions
TransactionFields == {"type", "status", "paymentStatus"}

normalizeTransactionForPayment(data) ==
  IF data.paymentStatus = "paid"
    THEN [data EXCEPT !.type = IF @ = "DRAFT" THEN "COMPLETED" ELSE @,
                      !.status = IF @ = "draft" THEN "completed" ELSE @]
    ELSE data

\* the pre-save middleware of the Transaction model runs
\* normalizeTransactionForPayment on the document
createTransaction(valid, transactionData, userId, storeOk, tx) ==
  IF ~valid
    THEN [resp |-> Resp(400, "Customer name and items are required"),
          tx |-> tx]
  ELSE IF ~storeOk
    THEN [resp |-> Resp(500, "Failed to create transaction"), tx |-> tx]
  ELSE [resp |-> Resp(201, ""),
        tx |-> normalizeTransactionForPayment(
                 [exists |-> TRUE, type |-> transactionData.type,
                  status |-> transactionData.status,
                  paymentStatus |-> transactionData.paymentStatus,
                  createdBy |-> IF userId # "" THEN userId ELSE "system"])]

\* findByIdAndUpdate sets the fields of the payload on the stored document;
\* "" is a field the payload does not carry
updateTransaction(idValid, updateData, userId, storeOk, tx) ==
  IF ~idValid THEN [resp |-> Resp(400, "Invalid transaction ID"), tx |-> tx]
  ELSE IF ~storeOk
    THEN [resp |-> Resp(500, "Failed to update transaction"), tx |-> tx]
  ELSE IF ~tx.exists
    THEN [resp |-> Resp(404, "Transaction not found"), tx |-> tx]
  ELSE [resp |-> Resp(200, ""),
        tx |-> [f \in DOMAIN tx |->
                  IF f \in TransactionFields /\ updateData[f] # ""
                    THEN updateData[f] ELSE tx[f]]]

deleteTransaction(idValid, storeOk, tx) ==
  IF ~idValid THEN [resp |-> Resp(400, "Invalid transaction ID"), tx |-> tx]
  ELSE IF ~storeOk
    THEN [resp |-> Resp(500, "Failed to delete transaction"), tx |-> tx]
  ELSE IF ~tx.exists
    THEN [resp |-> Resp(404, "Transaction not found"), tx |-> tx]
  ELSE [resp |-> Resp(200, ""), tx |-> NoTransaction]

\* ------------------------------------------------------------ switch-user
RootRoles == {"super_admin", "admin"}

\* POST of the switch-user route; issued is the role of the tokens set on
\* the response, NoRole when none are set
POST_switchUser(rootUserId, rootUserRole, targetUserId, storeOk, rootUser, target, auditOk) ==
  IF ~storeOk THEN [resp |-> Resp(500, "SWITCH_USER_ERROR"), issued |-> NoRole]
  ELSE IF rootUserId = NoRole \/ rootUserRole \notin RootRoles
    THEN [resp |-> Resp(403, "UNAUTHORIZED"), issued |-> NoRole]
  ELSE IF targetUserId = ""
    THEN [resp |-> Resp(400, "VALIDATION_ERROR"), issued |-> NoRole]
  ELSE IF ~rootUser.exists
    THEN [resp |-> Resp(404, "USER_NOT_FOUND"), issued |-> NoRole]
  ELSE IF ~target.exists
    THEN [resp |-> Resp(404, "USER_NOT_FOUND"), issued |-> NoRole]
  ELSE IF ~target.isActive
    THEN [resp |-> Resp(400, "USER_INACTIVE"), issued |-> NoRole]
  ELSE IF target.role \in RootRoles /\ target.role = rootUser.role
    THEN [resp |-> Resp(400, "INVALID_TARGET"), issued |-> NoRole]
  ELSE IF ~auditOk
    THEN [resp |-> Resp(500, "SWITCH_USER_ERROR"), issued |-> NoRole]
  ELSE [resp |-> Resp(200, ""), issued |-> target.role]

\* what a middleware did: its response (Null when it wrote none) and how
\* many times it called next
Passed == [resp |-> Null, nextCalls |-> 1]
Answered(resp) == [resp |-> resp, nextCalls |-> 0]

\* variant: super_admin stands for every role
requireRole_hierarchy(roles, hasUser, reqUser) ==
  IF ~hasUser THEN Answered(Resp(401, "Authentication required"))
  ELSE IF reqUser.role # "super_admin" /\ reqUser.role \notin roles
    THEN Answered(Resp(403, "Insufficient permissions"))
  ELSE Passed

requireRole(roles, hasUser, reqUser) ==
  IF ~hasUser THEN Answered(Resp(401, "Authentication required"))
  ELSE IF reqUser.role \notin roles
    THEN Answered(Resp(403, "Insufficient permissions"))
  ELSE Passed

requireAllPermissions(permissions, hasUser, reqUser) ==
  IF ~hasUser THEN Answered(Resp(401, "Not authenticated"))
  ELSE LET missingPermissions ==
             { p \in permissions : ~hasPermission(reqUser, p[1], p[2]) }
       IN IF Cardinality(missingPermissions) > 0
            THEN Answered(Resp(403, "Permission denied"))
          ELSE Passed

\* variant: every listed pair is needed
requireAnyPermission_every(permissions, hasUser, reqUser) ==
  requireAllPermissions(permissions, hasUser, reqUser)

requireAnyPermission(permissions, hasUser, reqUser) ==
  IF ~hasUser THEN Answered(Resp(401, "Not authenticated"))
  ELSE LET hasAnyPermission ==
             \E p \in permissions : hasPermission(reqUser, p[1], p[2])
       IN IF ~hasAnyPermission
            THEN Answered(Resp(403, "Permission denied"))
          ELSE Passed

\* variant: a draft of another user may be edited
requireDraftOrEditPermission_anyDraft(hasUser, reqUser, userId, storeOk, tx) ==
  IF ~hasUser THEN Answered(Resp(401, "Not authenticated"))
  ELSE IF ~storeOk THEN Answered(Resp(500, "Internal server error"))
  ELSE IF ~tx.exists THEN Answered(Resp(404, "Transaction not found"))
  ELSE IF tx.status = "draft" THEN
    IF hasPermission(reqUser, "transactions", "canEditDrafts") THEN Passed
    ELSE Answered(RespRequired(403, "Permission denied",
                               "transactions", "canEditDrafts"))
  ELSE IF hasPermission(reqUser, "transactions", "canEditTransactions")
    THEN Passed
  ELSE Answered(RespRequired(403, "Permission denied",
                             "transactions", "canEditTransactions"))

\* storeOk FALSE: Transaction.findById throws
requireDraftOrEditPermission(hasUser, reqUser, userId, storeOk, tx) ==
  IF ~hasUser THEN Answered(Resp(401, "Not authenticated"))
  ELSE IF ~storeOk THEN Answered(Resp(500, "Internal server error"))
  ELSE IF ~tx.exists THEN Answered(Resp(404, "Transaction not found"))
  ELSE IF tx.status = "draft" THEN
    LET canEditDrafts == hasPermission(reqUser, "transactions", "canEditDrafts")
        isOwner == tx.createdBy = userId
    IN IF canEditDrafts /\ isOwner THEN Passed
       ELSE Answered(RespRequired(403, "Permission denied",
                                  "transactions", "canEditDrafts"))
  ELSE LET canEdit ==
             hasPermission(reqUser, "transactions", "canEditTransactions")
       IN IF canEdit THEN Passed
          ELSE Answered(RespRequired(403, "Permission denied",
                                     "transactions", "canEditTransactions"))

\* ------------------------------------------------------- product handlers
Ok == Resp(200, "")
Result(resp, prod) == [resp |-> resp, product |-> prod]

\* DELETE of the product route that checks the permission inline
DELETE(authResult, prod, auditOk) ==
  IF authResult.threw THEN Result(Resp(500, ""), prod)
  ELSE IF ~authResult.success THEN Result(Resp(401, ""), prod)
  ELSE LET u == authResult.user
           canDeleteProducts ==
             \/ u.role = "super_admin"
             \/ u.role = "admin"
             \/ hasPermission(u, "inventory", "canAddProducts")
       IN IF ~canDeleteProducts
            THEN Result(Resp(403, "INSUFFICIENT_PERMISSIONS"), prod)
          ELSE IF prod.isDeleted THEN Result(Resp(400, ""), prod)
          ELSE Result(IF auditOk THEN Ok ELSE Resp(500, ""),
                      [prod EXCEPT !.isDeleted = TRUE])

\* DELETE of the product route that goes through the super-admin guard
DELETE_guarded(guard, prod, auditOk) ==
  IF guard.resp # Null THEN Result(Null, prod)
  ELSE IF prod.isDeleted THEN Result(Resp(400, ""), prod)
  ELSE Result(IF auditOk THEN Ok ELSE Resp(500, ""),
              [prod EXCEPT !.isDeleted = TRUE])

\* POST of the bulk-delete route (the model's only product is in productIds)
POST_bulkDelete(authResult, prod, auditOk) ==
  IF authResult.threw THEN Result(Resp(500, ""), prod)
  ELSE IF ~authResult.success THEN Result(Resp(401, ""), prod)
  ELSE LET u == authResult.user
           canDeleteProducts ==
             \/ u.role = "super_admin"
             \/ u.role = "admin"
             \/ hasPermission(u, "inventory", "canAddProducts")
       IN IF ~canDeleteProducts
            THEN Result(Resp(403, "INSUFFICIENT_PERMISSIONS"), prod)
          ELSE IF prod.isDeleted THEN Result(Resp(404, ""), prod)
          ELSE Result(IF auditOk THEN Ok ELSE Resp(500, ""),
                      [prod EXCEPT !.isDeleted = TRUE])

\* ------------------------------------------------------- product updates
\* an update payload: each field is present with a value, or omitted
Omitted == [present |-> FALSE, val |-> 0]
Given(v) == [present |-> TRUE, val |-> v]
NameOmitted == [present |-> FALSE, val |-> ""]
NoData == [name |-> NameOmitted, costPrice |-> Omitted, currentStock |-> Omitted]

Payloads ==
  [ name : {NameOmitted, [present |-> TRUE, val |-> "new"]},
    costPrice : {Omitted} \cup { Given(v) : v \in 0..MaxPrice },
    currentStock : {Omitted} \cup { Given(v) : v \in 0..MaxStock } ]

\* Number(x) || 0 : an omitted field converts to NaN, which || turns into 0
NumberOrZero(field) == IF field.present THEN field.val ELSE 0

Updated(resp, prod, events) ==
  [resp |-> resp, product |-> prod, events |-> events]

\* PUT without the test that the gated value is actually being changed
PUT_logsUnchanged(authResult, prod, data, auditOk) ==
  IF authResult.threw THEN Updated(Resp(500, ""), prod, <<>>)
  ELSE IF ~authResult.success THEN Updated(Resp(401, ""), prod, <<>>)
  ELSE LET u == authResult.user IN
    IF ~hasPermission(u, "inventory", "canEditProducts")
      THEN Updated(RespRequired(403, "INSUFFICIENT_PERMISSIONS",
                                "inventory", "canEditProducts"), prod, <<>>)
    ELSE
      LET costRevert ==
            /\ data.costPrice.present
            /\ ~hasPermission(u, "inventory", "canEditCostPrices")
          stockRevert ==
            /\ data.currentStock.present
            /\ ~hasPermission(u, "inventory", "canManageStock")
          transformedData ==
            [ name |-> data.name,
              costPrice |-> IF costRevert THEN prod.costPrice
                            ELSE NumberOrZero(data.costPrice),
              currentStock |-> IF stockRevert THEN prod.currentStock
                               ELSE NumberOrZero(data.currentStock) ]
          saved ==
            [prod EXCEPT
               !.name = IF transformedData.name.present
                          THEN transformedData.name.val ELSE @,
               !.costPrice = transformedData.costPrice,
               !.currentStock = transformedData.currentStock]
          events == (IF costRevert THEN <<"costPrice">> ELSE <<>>)
                    \o (IF stockRevert THEN <<"currentStock">> ELSE <<>>)
      IN IF (costRevert \/ stockRevert) /\ ~auditOk
           THEN Updated(Resp(500, ""), prod, <<>>)
         ELSE IF u.role \in {"admin", "super_admin"} /\ ~auditOk
           THEN Updated(Resp(500, ""), saved, events)
         ELSE Updated(Ok, saved, events)

\* PUT of the product route: the sensitive-field guard on costPrice and
\* currentStock, then findByIdAndUpdate with the transformed payload
PUT(authResult, prod, data, auditOk) ==
  IF authResult.threw THEN Updated(Resp(500, ""), prod, <<>>)
  ELSE IF ~authResult.success THEN Updated(Resp(401, ""), prod, <<>>)
  ELSE LET u == authResult.user IN
    IF ~hasPermission(u, "inventory", "canEditProducts")
      THEN Updated(RespRequired(403, "INSUFFICIENT_PERMISSIONS",
                                "inventory", "canEditProducts"), prod, <<>>)
    ELSE
      LET costRevert ==
            /\ data.costPrice.present
            /\ prod.costPrice # NumberOrZero(data.costPrice)
            /\ ~hasPermission(u, "inventory", "canEditCostPrices")
          stockRevert ==
            /\ data.currentStock.present
            /\ prod.currentStock # NumberOrZero(data.currentStock)
            /\ ~hasPermission(u, "inventory", "canManageStock")
          transformedData ==
            [ name |-> data.name,
              costPrice |-> IF costRevert THEN prod.costPrice
                            ELSE NumberOrZero(data.costPrice),
              currentStock |-> IF stockRevert THEN prod.currentStock
                               ELSE NumberOrZero(data.currentStock) ]
          saved ==
            [prod EXCEPT
               !.name = IF transformedData.name.present
                          THEN transformedData.name.val ELSE @,
               !.costPrice = transformedData.costPrice,
               !.currentStock = transformedData.currentStock]
          events == (IF costRevert THEN <<"costPrice">> ELSE <<>>)
                    \o (IF stockRevert THEN <<"currentStock">> ELSE <<>>)
      IN IF (costRevert \/ stockRevert) /\ ~auditOk
           THEN Updated(Resp(500, ""), prod, <<>>)
         ELSE IF u.role \in {"admin", "super_admin"} /\ ~auditOk
           THEN Updated(Resp(500, ""), saved, events)
         ELSE Updated(Ok, saved, events)

\* updateProduct of the Express controller: a changed cost price is
\* rejected unless the user is super_admin; only given fields are written
updateProduct(hasUser, reqUser, prod, updates) ==
  IF /\ updates.costPrice.present
     /\ updates.costPrice.val # prod.costPrice
     /\ (~hasUser \/ reqUser.role # "super_admin")
    THEN Updated(Resp(403, "Only super admin can modify cost price"), prod, <<>>)
  ELSE Updated(Ok,
         [prod EXCEPT
            !.name = IF updates.name.present THEN updates.name.val ELSE @,
            !.costPrice = IF updates.costPrice.present
                            THEN updates.costPrice.val ELSE @,
            !.currentStock = IF updates.currentStock.present
                               THEN updates.currentStock.val ELSE @],
         <<>>)

\* the route handler the transport layer runs for a method and a path
RouteHandler(method, path, authResult, prod, auditOk) ==
  IF method = "DELETE" /\ path = ProductIdPath
    THEN DELETE(authResult, prod, auditOk)
  ELSE IF method = "POST" /\ path = BulkDeletePath
    THEN POST_bulkDelete(authResult, prod, auditOk)
  ELSE Result(Ok, prod)

\* ------------------------------------------------------------ discounts
DiscountKinds == {"product", "bill"}
Verdict(allowed, reason, steps) ==
  [allowed |-> allowed, reason |-> reason, steps |-> steps]
KindGate(kind) ==
  IF kind = "product" THEN "canApplyProductDiscounts"
  ELSE "canApplyBillDiscounts"

\* checkDiscountPermission with an exclusive percent bound
PermissionService_checkDiscountPermission_exclusive(u, discountPercent, discountAmount, type) ==
  LET dp == u.discountPermissions IN
  IF u.role = "super_admin" \/ dp.unlimitedDiscounts
    THEN Verdict(TRUE, "", <<"override">>)
  ELSE IF discountPercent <= 0 /\ discountAmount <= 0
    THEN Verdict(TRUE, "", <<"override", "requested">>)
  ELSE IF ~dp[KindGate(type)]
    THEN Verdict(FALSE, "discount type not permitted",
                 <<"override", "requested", KindGate(type)>>)
  ELSE IF discountPercent >= dp.maxDiscountPercent
    THEN Verdict(FALSE, "percent bound exceeded",
                 <<"override", "requested", KindGate(type),
                   "maxDiscountPercent">>)
  ELSE IF discountAmount > dp.maxDiscountAmount
    THEN Verdict(FALSE, "amount bound exceeded",
                 <<"override", "requested", KindGate(type),
                   "maxDiscountPercent", "maxDiscountAmount">>)
  ELSE Verdict(TRUE, "",
               <<"override", "requested", KindGate(type),
                 "maxDiscountPercent", "maxDiscountAmount">>)


\* checkDiscountPermission that tests the gate of the kind before the override
PermissionService_checkDiscountPermission_gateFirst(u, discountPercent, discountAmount, type) ==
  LET dp == u.discountPermissions IN
  IF discountPercent <= 0 /\ discountAmount <= 0
    THEN Verdict(TRUE, "", <<"requested">>)
  ELSE IF ~dp[KindGate(type)]
    THEN Verdict(FALSE, "discount type not permitted",
                 <<"requested", KindGate(type)>>)
  ELSE IF u.role = "super_admin" \/ dp.unlimitedDiscounts
    THEN Verdict(TRUE, "", <<"requested", KindGate(type), "override">>)
  ELSE IF discountPercent > dp.maxDiscountPercent
    THEN Verdict(FALSE, "percent bound exceeded",
                 <<"override", "requested", KindGate(type),
                   "maxDiscountPercent">>)
  ELSE IF discountAmount > dp.maxDiscountAmount
    THEN Verdict(FALSE, "amount bound exceeded",
                 <<"override", "requested", KindGate(type),
                   "maxDiscountPercent", "maxDiscountAmount">>)
  ELSE Verdict(TRUE, "",
               <<"override", "requested", KindGate(type),
                 "maxDiscountPercent", "maxDiscountAmount">>)


\* checkDiscountPermission that accepts the gate of either kind
PermissionService_checkDiscountPermission_anyGate(u, discountPercent, discountAmount, type) ==
  LET dp == u.discountPermissions IN
  IF u.role = "super_admin" \/ dp.unlimitedDiscounts
    THEN Verdict(TRUE, "", <<"override">>)
  ELSE IF discountPercent <= 0 /\ discountAmount <= 0
    THEN Verdict(TRUE, "", <<"override", "requested">>)
  ELSE IF ~(dp.canApplyProductDiscounts \/ dp.canApplyBillDiscounts)
    THEN Verdict(FALSE, "discount type not permitted",
                 <<"override", "requested", "canApplyProductDiscounts",
                   "canApplyBillDiscounts">>)
  ELSE IF discountPercent > dp.maxDiscountPercent
    THEN Verdict(FALSE, "percent bound exceeded",
                 <<"override", "requested", KindGate(type),
                   "maxDiscountPercent">>)
  ELSE IF discountAmount > dp.maxDiscountAmount
    THEN Verdict(FALSE, "amount bound exceeded",
                 <<"override", "requested", KindGate(type),
                   "maxDiscountPercent", "maxDiscountAmount">>)
  ELSE Verdict(TRUE, "",
               <<"override", "requested", KindGate(type),
                 "maxDiscountPercent", "maxDiscountAmount">>)


\* checkDiscountPermission without the no-discount case
PermissionService_checkDiscountPermission_noZeroRule(u, discountPercent, discountAmount, type) ==
  LET dp == u.discountPermissions IN
  IF u.role = "super_admin" \/ dp.unlimitedDiscounts
    THEN Verdict(TRUE, "", <<"override">>)
  ELSE IF ~dp[KindGate(type)]
    THEN Verdict(FALSE, "discount type not permitted",
                 <<"override", "requested", KindGate(type)>>)
  ELSE IF discountPercent > dp.maxDiscountPercent
    THEN Verdict(FALSE, "percent bound exceeded",
                 <<"override", "requested", KindGate(type),
                   "maxDiscountPercent">>)
  ELSE IF discountAmount > dp.maxDiscountAmount
    THEN Verdict(FALSE, "amount bound exceeded",
                 <<"override", "requested", KindGate(type),
                   "maxDiscountPercent", "maxDiscountAmount">>)
  ELSE Verdict(TRUE, "",
               <<"override", "requested", KindGate(type),
                 "maxDiscountPercent", "maxDiscountAmount">>)


\* PermissionService.checkDiscountPermission: the override of super_admin
\* and unlimitedDiscounts, the no-discount case, the gate of the kind, then
\* the percent bound and the amount bound
PermissionService_checkDiscountPermission(u, discountPercent, discountAmount, type) ==
  LET dp == u.discountPermissions IN
  IF u.role = "super_admin" \/ dp.unlimitedDiscounts
    THEN Verdict(TRUE, "", <<"override">>)
  ELSE IF discountPercent <= 0 /\ discountAmount <= 0
    THEN Verdict(TRUE, "", <<"override", "requested">>)
  ELSE IF ~dp[KindGate(type)]
    THEN Verdict(FALSE, "discount type not permitted",
                 <<"override", "requested", KindGate(type)>>)
  ELSE IF discountPercent > dp.maxDiscountPercent
    THEN Verdict(FALSE, "percent bound exceeded",
                 <<"override", "requested", KindGate(type),
                   "maxDiscountPercent">>)
  ELSE IF discountAmount > dp.maxDiscountAmount
    THEN Verdict(FALSE, "amount bound exceeded",
                 <<"override", "requested", KindGate(type),
                   "maxDiscountPercent", "maxDiscountAmount">>)
  ELSE Verdict(TRUE, "",
               <<"override", "requested", KindGate(type),
                 "maxDiscountPercent", "maxDiscountAmount">>)

\* checkDiscountPermission of the middleware: type defaults to 'bill'
DefaultKind == "default"
checkDiscountPermission(u, discountPercent, discountAmount, type) ==
  PermissionService_checkDiscountPermission(
    u, discountPercent, discountAmount,
    IF type = DefaultKind THEN "bill" ELSE type)

\* ------------------------------------------------------ requests in flight
\* the local variables of a request that is suspended at an await
RequestIds == {"r1", "r2"}
IdleRequest ==
  [pc |-> "idle", method |-> "", path |-> <<>>, userId |-> "",
   permissionConfig |-> NoConfig, storeOk |-> TRUE, principal |-> NoUser,
   found |-> FALSE, resp |-> Null, quantity |-> 0, read |-> NoStock]
NoInflight == [r \in RequestIds |-> IdleRequest]

\* ------------------------------------------------------------ last pass
NoCap == <<"", "">>
NoProduct == [name |-> "", costPrice |-> 0, currentStock |-> 0,
              isDeleted |-> FALSE]
NoPayloadTarget == [targetUserId |-> ""]
NoDiscount == [percent |-> 0, amount |-> 0, type |-> "",
               verdict |-> Verdict(TRUE, "", <<>>)]
\* a decision asked of the evaluator and what it answered
NoCheck == [kind |-> "", cap |-> NoCap, feature |-> "", action |-> ""]
NoDecision == [granted |-> FALSE, status |-> 0]
Idle == [op |-> "idle", method |-> "", path |-> <<>>, feature |-> "",
         cap |-> NoCap, hdr |-> "none", claimedRole |-> NoRole,
         storeOk |-> TRUE, auditOk |-> TRUE, resp |-> Null,
         steps |-> <<>>, handlerRan |-> FALSE, handlerResp |-> Null,
         data |-> NoData, prior |-> NoProduct, events |-> <<>>,
         discount |-> NoDiscount,
         pattern |-> <<>>, matched |-> FALSE, rule |-> NoConfig,
         check |-> NoCheck, calls |-> 0, first |-> NoDecision,
         second |-> NoDecision, seen |-> NoUser,
         roles |-> {}, permissions |-> {}, nextCalls |-> 0,
         issued |-> NoRole]

Respond ==
  /\ last.op # "idle"
  /\ last' = Idle
  /\ UNCHANGED <<user, tokenRole, product, registry, inflight, transaction,
               targetUser>>

\* ------------------------------------------------------- principal store
SetRole(r) ==
  /\ last = Idle
  /\ user.exists /\ user.role # r
  /\ user' = [user EXCEPT !.role = r]
  /\ UNCHANGED <<tokenRole, product, last, registry, inflight, transaction,
               targetUser>>

SetPermission(c, v) ==
  /\ last = Idle
  /\ user.exists /\ user.featurePermissions[c] # v
  /\ user' = [user EXCEPT !.featurePermissions[c] = v]
  /\ UNCHANGED <<tokenRole, product, last, registry, inflight, transaction,
               targetUser>>

SetActive(b) ==
  /\ last = Idle
  /\ user.exists /\ user.isActive # b
  /\ user' = [user EXCEPT !.isActive = b]
  /\ UNCHANGED <<tokenRole, product, last, registry, inflight, transaction,
               targetUser>>

RemoveUser ==
  /\ last = Idle
  /\ user.exists
  /\ user' = NoUser
  /\ UNCHANGED <<tokenRole, product, last, registry, inflight, transaction,
               targetUser>>

CreateUser(r) ==
  /\ last = Idle
  /\ ~user.exists
  /\ user' = [exists |-> TRUE, role |-> r, isActive |-> TRUE,
              featurePermissions |-> NoGrants,
              discountPermissions |-> NoDiscountGrants]
  /\ UNCHANGED <<tokenRole, product, last, registry, inflight, transaction,
               targetUser>>

\* ------------------------------------------------------------- tokens
generateAccessToken ==
  /\ last = Idle
  /\ user.exists /\ tokenRole # user.role
  /\ tokenRole' = user.role
  /\ UNCHANGED <<user, product, last, registry, inflight, transaction,
               targetUser>>

\* ------------------------------------------------------------ requests
HeaderId(hdr) == IF hdr = "none" THEN NoRole ELSE "u1"
HeaderRole(hdr) == IF hdr = "full" THEN tokenRole ELSE NoRole

ApiRequest(method, path, hdr, storeOk, auditOk) ==
  /\ last = Idle
  /\ hdr = "full" => tokenRole # NoRole
  /\ LET r == checkPermission(method, path, HeaderId(hdr), HeaderRole(hdr),
                              storeOk, user)
         h == RouteHandler(method, path,
                           getAuthUser(hdr = "full", storeOk, user),
                           product, auditOk)
         proceed == r.resp = Null
     IN /\ last' = [Idle EXCEPT !.op = "api", !.method = method,
                      !.path = path, !.hdr = hdr,
                      !.claimedRole = HeaderRole(hdr),
                      !.storeOk = storeOk, !.auditOk = auditOk,
                      !.resp = r.resp, !.steps = r.steps,
                      !.handlerRan = proceed,
                      !.handlerResp = IF proceed THEN h.resp ELSE Null]
        /\ product' = IF proceed THEN h.product ELSE product
  /\ UNCHANGED <<user, tokenRole, registry, inflight, transaction,
               targetUser>>

ProtectedRequest(feature, session, storeOk) ==
  /\ last = Idle
  /\ session => tokenRole # NoRole
  /\ LET guard == requireSuperAdminAccess(getAuthUser(session, storeOk, user),
                                          feature)
         w == withSuperAdminProtection(guard, Ok)
     IN last' = [Idle EXCEPT !.op = "protected", !.feature = feature,
                   !.hdr = IF session THEN "full" ELSE "none",
                   !.storeOk = storeOk, !.resp = w.resp,
                   !.steps = guard.steps, !.handlerRan = w.handlerRan,
                   !.handlerResp = w.handlerResp]
  /\ UNCHANGED <<user, tokenRole, product, registry, inflight, transaction,
               targetUser>>

GuardedDelete(session, storeOk, auditOk) ==
  /\ last = Idle
  /\ session => tokenRole # NoRole
  /\ LET auth == getAuthUser(session, storeOk, user)
         guard == requireSuperAdminAccess(auth, "product_management")
         h == DELETE_guarded(guard, product, auditOk)
     IN /\ last' = [Idle EXCEPT !.op = "guardedDelete",
                      !.feature = "product_management",
                      !.hdr = IF session THEN "full" ELSE "none",
                      !.storeOk = storeOk, !.auditOk = auditOk,
                      !.resp = guard.resp, !.steps = guard.steps,
                      !.handlerRan = (h.resp # Null),
                      !.handlerResp = h.resp]
        /\ product' = h.product
  /\ UNCHANGED <<user, tokenRole, registry, inflight, transaction,
               targetUser>>

ExpressRequest(token, cap, storeOk) ==
  /\ last = Idle
  /\ token = "valid" => tokenRole # NoRole
  /\ LET a == authenticateToken(token, storeOk, user)
         p == requirePermission(a.next, user, cap[1], cap[2])
     IN last' = [Idle EXCEPT !.op = "express", !.cap = cap,
                   !.hdr = IF token = "valid" THEN "full" ELSE "none",
                   !.storeOk = storeOk,
                   !.resp = IF ~a.next THEN a.resp ELSE p.resp,
                   !.steps = IF a.next THEN a.steps \o p.steps ELSE a.steps,
                   !.handlerRan = (a.next /\ p.next),
                   !.handlerResp = IF a.next /\ p.next THEN Ok ELSE Null]
  /\ UNCHANGED <<user, tokenRole, product, registry, inflight, transaction,
               targetUser>>

PutRequest(data, session, storeOk, auditOk) ==
  /\ last = Idle
  /\ session => tokenRole # NoRole
  /\ LET h == PUT(getAuthUser(session, storeOk, user), product, data, auditOk)
     IN /\ last' = [Idle EXCEPT !.op = "put", !.method = "PUT",
                      !.hdr = IF session THEN "full" ELSE "none",
                      !.storeOk = storeOk, !.auditOk = auditOk,
                      !.handlerRan = TRUE, !.handlerResp = h.resp,
                      !.data = data, !.prior = product,
                      !.events = h.events]
        /\ product' = h.product
  /\ UNCHANGED <<user, tokenRole, registry, inflight, transaction,
               targetUser>>

UpdateProductRequest(data, token, storeOk) ==
  /\ last = Idle
  /\ token = "valid" => tokenRole # NoRole
  /\ LET a == authenticateToken(token, storeOk, user)
         h == updateProduct(a.next, user, product, data)
     IN /\ last' = [Idle EXCEPT !.op = "updateProduct", !.method = "PUT",
                      !.hdr = IF token = "valid" THEN "full" ELSE "none",
                      !.storeOk = storeOk, !.resp = a.resp,
                      !.steps = a.steps, !.handlerRan = a.next,
                      !.handlerResp = IF a.next THEN h.resp ELSE Null,
                      !.data = data, !.prior = product,
                      !.events = IF a.next THEN h.events ELSE <<>>]
        /\ product' = IF a.next THEN h.product ELSE product
  /\ UNCHANGED <<user, tokenRole, registry, inflight, transaction,
               targetUser>>

Init ==
  /\ user = [exists |-> TRUE, role |-> "staff", isActive |-> TRUE,
             featurePermissions |-> NoGrants,
             discountPermissions |-> NoDiscountGrants]
  /\ tokenRole = NoRole
  /\ product = [name |-> "old", costPrice |-> 1, currentStock |-> 1,
                isDeleted |-> FALSE]
  /\ last = Idle
  /\ registry = routePermissions
  /\ inflight = NoInflight
  /\ transaction = NoTransaction
  /\ targetUser = NoUser

Next ==
  \/ \E r \in Roles : SetRole(r)
  \/ \E c \in SpecCaps, v \in PermVals : SetPermission(c, v)
  \/ \E b \in BOOLEAN : SetActive(b)
  \/ RemoveUser
  \/ \E r \in Roles : CreateUser(r)
  \/ generateAccessToken
  \/ \E m \in Methods, p \in Paths, h \in Headers, ok \in BOOLEAN, a \in BOOLEAN :
       ApiRequest(m, p, h, ok, a)
  \/ \E f \in Features, s \in BOOLEAN, ok \in BOOLEAN :
       ProtectedRequest(f, s, ok)
  \/ \E s \in BOOLEAN, ok \in BOOLEAN, a \in BOOLEAN : GuardedDelete(s, ok, a)
  \/ \E t \in Tokens, c \in SpecCaps \cup {ReportsCap}, ok \in BOOLEAN :
       ExpressRequest(t, c, ok)
  \/ Respond

Spec == Init /\ [][Next]_vars

\* ------------------------------------------- specification of the updates
UpdateCaps ==
  { <<"inventory", "canEditProducts">>,
    <<"inventory", "canEditCostPrices">>,
    <<"inventory", "canManageStock">> }

InitUpdate ==
  /\ \E r \in Roles, g \in [UpdateCaps -> PermVals] :
       /\ user = [exists |-> TRUE, role |-> r, isActive |-> TRUE,
                  featurePermissions |->
                    [c \in StoredCaps |->
                       IF c \in UpdateCaps THEN g[c] ELSE "absent"],
                  discountPermissions |-> NoDiscountGrants]
       /\ tokenRole = r
  /\ \E c \in 0..MaxPrice, k \in 0..MaxStock :
       product = [name |-> "old", costPrice |-> c, currentStock |-> k,
                  isDeleted |-> FALSE]
  /\ last = Idle
  /\ registry = routePermissions
  /\ inflight = NoInflight
  /\ transaction = NoTransaction
  /\ targetUser = NoUser

NextUpdate ==
  \/ \E d \in Payloads, s \in BOOLEAN, ok \in BOOLEAN, a \in BOOLEAN :
       PutRequest(d, s, ok, a)
  \/ \E d \in Payloads, t \in Tokens, ok \in BOOLEAN :
       UpdateProductRequest(d, t, ok)
  \/ Respond

SpecUpdate == InitUpdate /\ [][NextUpdate]_vars

\* ----------------------------------------- specification of the discounts
DiscountGrants ==
  [ canApplyProductDiscounts : BOOLEAN, canApplyBillDiscounts : BOOLEAN,
    maxDiscountPercent : 0..MaxPercent, maxDiscountAmount : 0..MaxAmount,
    unlimitedDiscounts : BOOLEAN ]

DiscountRequest(percent, amount, type) ==
  /\ last = Idle
  /\ last' = [Idle EXCEPT
                !.op = "discount",
                !.discount =
                  [percent |-> percent, amount |-> amount, type |-> type,
                   verdict |-> checkDiscountPermission(user, percent,
                                                       amount, type)]]
  /\ UNCHANGED <<user, tokenRole, product, registry, inflight, transaction,
               targetUser>>

InitDiscount ==
  /\ \E r \in Roles, g \in DiscountGrants :
       user = [exists |-> TRUE, role |-> r, isActive |-> TRUE,
               featurePermissions |-> NoGrants,
               discountPermissions |-> g]
  /\ tokenRole = NoRole
  /\ product = NoProduct
  /\ last = Idle
  /\ registry = routePermissions
  /\ inflight = NoInflight
  /\ transaction = NoTransaction
  /\ targetUser = NoUser

NextDiscount ==
  \/ \E p \in -1..(MaxPercent + 1), a \in -1..(MaxAmount + 1),
        t \in DiscountKinds \cup {DefaultKind} : DiscountRequest(p, a, t)
  \/ Respond

SpecDiscount == InitDiscount /\ [][NextDiscount]_vars

\* ----------------------------------------------------------- the catalog
\* the catalog of (category, capability) pairs: the interfaces of
\* FeaturePermissions
Catalog ==
  { <<"discounts", p>> : p \in
      { "canApplyProductDiscounts", "canApplyBillDiscounts",
        "maxDiscountPercent", "maxDiscountAmount", "unlimitedDiscounts" } }
  \cup
  { <<"reports", p>> : p \in
      { "canViewFinancialReports", "canViewInventoryReports",
        "canViewUserReports", "canViewSecurityMetrics", "canExportReports" } }
  \cup
  { <<"inventory", p>> : p \in
      { "canAddProducts", "canEditProducts", "canDeleteProducts",
        "canManageStock", "canCreateRestockOrders", "canBulkOperations",
        "canEditCostPrices" } }
  \cup
  { <<"userManagement", p>> : p \in
      { "canCreateUsers", "canEditUsers", "canDeleteUsers",
        "canAssignRoles", "canManagePermissions", "canViewSecurityLogs" } }
  \cup
  { <<"patients", p>> : p \in
      { "canCreatePatients", "canEditPatients", "canDeletePatients",
        "canViewMedicalHistory", "canManagePrescriptions",
        "canAccessAllPatients" } }
  \cup
  { <<"transactions", p>> : p \in
      { "canCreateTransactions", "canEditTransactions",
        "canDeleteTransactions", "canApplyDiscounts",
        "canRefundTransactions", "canViewFinancialDetails" } }
  \cup
  { <<"bundles", p>> : p \in
      { "canCreateBundles", "canEditBundles", "canDeleteBundles",
        "canSetPricing" } }
  \cup
  { <<"suppliers", p>> : p \in
      { "canManageSuppliers", "canCreateSuppliers", "canEditSuppliers",
        "canDeleteSuppliers" } }
  \cup
  { <<"blends", p>> : p \in
      { "canCreateFixedBlends", "canEditFixedBlends",
        "canDeleteFixedBlends", "canCreateCustomBlends" } }
  \cup
  { <<"prescriptions", p>> : p \in
      { "canCreatePrescriptions", "canEditPrescriptions",
        "canDeletePrescriptions", "canViewAllPrescriptions",
        "canPrintPrescriptions", "canManageTemplates" } }
  \cup
  { <<"appointments", p>> : p \in
      { "canCreateAppointments", "canEditAppointments",
        "canDeleteAppointments", "canViewAllAppointments",
        "canManageSchedules", "canOverrideBookings" } }
  \cup
  { <<"containers", p>> : p \in
      { "canManageContainerTypes", "canCreateTypes", "canEditTypes",
        "canDeleteTypes" } }
  \cup
  { <<"brands", p>> : p \in
      { "canManageBrands", "canCreateBrands", "canEditBrands",
        "canDeleteBrands" } }
  \cup
  { <<"dosageForms", p>> : p \in
      { "canManageDosageForms", "canCreateForms", "canEditForms",
        "canDeleteForms" } }
  \cup
  { <<"categories", p>> : p \in
      { "canManageCategories", "canCreateCategories", "canEditCategories",
        "canDeleteCategories" } }
  \cup
  { <<"units", p>> : p \in
      { "canManageUnits", "canCreateUnits", "canEditUnits",
        "canDeleteUnits" } }
  \cup
  { <<"documents", p>> : p \in
      { "canUploadDocuments", "canViewDocuments", "canDeleteDocuments",
        "canManageFolders" } }
  \cup
  { <<"security", p>> : p \in
      { "canViewSecurityLogs", "canManageSecurity", "canViewAuditTrails",
        "canManageApiKeys" } }
  \cup
  { <<"settings", p>> : p \in
      { "canViewSettings", "canEditSettings", "canManageIntegrations",
        "canConfigureSystem" } }

\* ------------------------------------------ specification of the registry
UsersPath     == <<"", "api", "users">>
AuditLogsPath == <<"", "api", "users", "audit-logs">>
UserIdPattern   == <<"", "api", "users", "[id]">>
UserSlugPattern == <<"", "api", "users", "[slug]">>

\* route keys and configs handed to addRoutePermission
AddedRoutes ==
  { <<"GET", UserIdPattern>>, <<"GET", UserSlugPattern>>,
    <<"GET", UserIdPath>> }
AddedConfigs ==
  { Rule("", <<>>, "reports", "canViewFinancialReports"),
    Rule("", <<>>, "reports", "canViewEverything"),
    RoleRule("", <<>>, {"admin"}) }
\* partial configs handed to updateRoutePermission
PartialConfigs ==
  { [category |-> "security", permission |-> "canViewSecurityLogs"],
    [requiresRole |-> {"manager"}] }

Keyed(route, config) ==
  [config EXCEPT !.method = route[1], !.path = route[2]]

\* { ...old, ...config } : the fields of config replace those of old
Merged(old, config) ==
  [f \in DOMAIN old |-> IF f \in DOMAIN config THEN config[f] ELSE old[f]]

addRoutePermission(route, config) ==
  /\ last = Idle
  /\ LET at == exactEntry(route[1], route[2]) IN
       IF at # {}
         THEN registry' = [registry EXCEPT
                             ![CHOOSE i \in at : TRUE] = Keyed(route, config)]
         ELSE /\ Len(registry) < Len(routePermissions) + MaxAdded
              /\ registry' = Append(registry, Keyed(route, config))
  /\ UNCHANGED <<user, tokenRole, product, last, inflight, transaction,
               targetUser>>

updateRoutePermission(route, config) ==
  /\ last = Idle
  /\ LET at == exactEntry(route[1], route[2]) IN
       IF at # {}
         THEN registry' = [registry EXCEPT
                             ![CHOOSE i \in at : TRUE] = Merged(@, config)]
         ELSE UNCHANGED registry
  /\ UNCHANGED <<user, tokenRole, product, last, inflight, transaction,
               targetUser>>

LookupRequest(method, pathname) ==
  /\ last = Idle
  /\ last' = [Idle EXCEPT !.op = "lookup", !.method = method,
                !.path = pathname,
                !.rule = getRoutePermission(method, pathname)]
  /\ UNCHANGED <<user, tokenRole, product, registry, inflight, transaction,
               targetUser>>

LookupPaths == { UsersPath, UserIdPath, AuditLogsPath, ProductIdPath,
                 BulkDeletePath }

InitRegistry ==
  /\ user = [exists |-> TRUE, role |-> "staff", isActive |-> TRUE,
             featurePermissions |-> NoGrants,
             discountPermissions |-> NoDiscountGrants]
  /\ tokenRole = NoRole
  /\ product = NoProduct
  /\ last = Idle
  /\ registry = routePermissions
  /\ inflight = NoInflight
  /\ transaction = NoTransaction
  /\ targetUser = NoUser

NextRegistry ==
  \/ \E r \in AddedRoutes, c \in AddedConfigs : addRoutePermission(r, c)
  \/ \E r \in AddedRoutes \cup {<<"PUT", UserIdPattern>>},
        c \in PartialConfigs : updateRoutePermission(r, c)
  \/ \E m \in {"GET", "PUT"}, p \in LookupPaths : LookupRequest(m, p)
  \/ Respond

SpecRegistry == InitRegistry /\ [][NextRegistry]_vars

\* ------------------------------------ specification of the pattern match
\* the non-empty sequences over S of at most n elements
SeqsUpTo(S, n) == UNION { [1..k -> S] : k \in 1..n }

PathSegments == {"", "products", "abc123", "stock"}
PatternSegments == {"", "products", "[id]"}
PathInputs == SeqsUpTo(PathSegments, MaxSegs)
PatternInputs == SeqsUpTo(PatternSegments, MaxSegs)

\* the path of a request is matched against the pattern of a registered rule
MatchRequest(path, i) ==
  /\ last = Idle
  /\ last' = [Idle EXCEPT !.op = "match", !.path = path,
                !.pattern = registry[i].path,
                !.matched = matchesPattern(path, registry[i].path)]
  /\ UNCHANGED <<user, tokenRole, product, registry, inflight, transaction,
               targetUser>>

InitMatch ==
  /\ user = [exists |-> TRUE, role |-> "staff", isActive |-> TRUE,
             featurePermissions |-> NoGrants,
             discountPermissions |-> NoDiscountGrants]
  /\ tokenRole = NoRole
  /\ product = NoProduct
  /\ last = Idle
  /\ \E pattern \in PatternInputs :
       registry = << Rule("GET", pattern, "inventory", "canAddProducts") >>
  /\ inflight = NoInflight
  /\ transaction = NoTransaction
  /\ targetUser = NoUser

NextMatch ==
  \/ \E path \in PathInputs, i \in 1..Len(registry) : MatchRequest(path, i)
  \/ Respond

SpecMatch == InitMatch /\ [][NextMatch]_vars

\* ------------------------------- specification of the concurrent passes
\* the part of checkPermission after the rule was found: the store read
\* and the tests of the rule on the stored user
evaluateRule(permissionConfig, storeOk, dbUser) ==
  IF ~storeOk THEN Resp(500, "PERMISSION_CHECK_ERROR")
  ELSE IF ~dbUser.exists THEN Resp(401, "USER_NOT_FOUND")
  ELSE IF /\ permissionConfig.requiresRole # NoRoles
          /\ dbUser.role \notin permissionConfig.requiresRole
    THEN Resp(403, "INSUFFICIENT_ROLE")
  ELSE IF /\ permissionConfig.category # ""
          /\ permissionConfig.permission # ""
          /\ ~hasPermission(dbUser, permissionConfig.category,
                            permissionConfig.permission)
    THEN RespRequired(403, "INSUFFICIENT_PERMISSIONS",
                      permissionConfig.category, permissionConfig.permission)
  ELSE Null

\* a second user document of the store
OtherUser ==
  [exists |-> TRUE, role |-> "manager", isActive |-> TRUE,
   featurePermissions |->
     [NoGrants EXCEPT ![<<"inventory", "canEditProducts">>] = "true"],
   discountPermissions |-> NoDiscountGrants]
UserIds == {"u1", "u2"}
findById(userId) == IF userId = "u1" THEN user ELSE OtherUser

ProductIdPattern == <<"", "api", "inventory", "products", "[id]">>
Done(req, resp) == [req EXCEPT !.pc = "done", !.resp = resp]

\* checkPermission up to its first await: skip test, identity headers,
\* super_admin return and the lookup of the rule
PassStart(r, method, pathname, userId, userRole) ==
  /\ inflight[r].pc = "idle"
  /\ LET req == [IdleRequest EXCEPT !.method = method, !.path = pathname,
                                    !.userId = userId]
         permissionConfig == getRoutePermission(method, pathname)
     IN inflight' = [inflight EXCEPT ![r] =
          IF skipPermissionCheck(pathname) THEN Done(req, Null)
          ELSE IF userId = NoRole \/ userRole = NoRole
            THEN Done(req, Resp(401, "USER_INFO_MISSING"))
          ELSE IF userRole = "super_admin" THEN Done(req, Null)
          ELSE IF permissionConfig = NoConfig THEN Done(req, Null)
          ELSE [req EXCEPT !.pc = "dbConnect",
                           !.permissionConfig = permissionConfig]]
  /\ UNCHANGED <<user, tokenRole, product, last, registry, transaction,
               targetUser>>

\* await dbConnect() returns or throws
PassConnect(r, storeOk) ==
  /\ inflight[r].pc = "dbConnect"
  /\ inflight' = [inflight EXCEPT ![r] =
       IF storeOk THEN [@ EXCEPT !.pc = "findById"]
       ELSE [@ EXCEPT !.pc = "done", !.storeOk = FALSE,
                      !.resp = Resp(500, "PERMISSION_CHECK_ERROR")]]
  /\ UNCHANGED <<user, tokenRole, product, last, registry, transaction,
               targetUser>>

\* variant: the rule is looked up again after the store read
PassFind_rereads(r, storeOk) ==
  /\ inflight[r].pc = "findById"
  /\ LET req == inflight[r] IN
     inflight' = [inflight EXCEPT ![r] =
       [req EXCEPT !.pc = "done", !.found = TRUE, !.storeOk = storeOk,
                   !.principal = findById(req.userId),
                   !.resp = evaluateRule(
                              getRoutePermission(req.method, req.path),
                              storeOk, findById(req.userId))]]
  /\ UNCHANGED <<user, tokenRole, product, last, registry, transaction,
               targetUser>>

\* await User.findById(userId) returns or throws, then the tests of the
\* rule held in permissionConfig run to the return
PassFind(r, storeOk) ==
  /\ inflight[r].pc = "findById"
  /\ LET req == inflight[r] IN
     inflight' = [inflight EXCEPT ![r] =
       [req EXCEPT !.pc = "done", !.found = TRUE, !.storeOk = storeOk,
                   !.principal = findById(req.userId),
                   !.resp = evaluateRule(req.permissionConfig, storeOk,
                                         findById(req.userId))]]
  /\ UNCHANGED <<user, tokenRole, product, last, registry, transaction,
               targetUser>>

PassReturn(r) ==
  /\ inflight[r].pc = "done"
  /\ inflight' = [inflight EXCEPT ![r] = IdleRequest]
  /\ UNCHANGED <<user, tokenRole, product, last, registry, transaction,
               targetUser>>

ConcurrentRoutes == { <<"PUT", ProductIdPattern>> }
ConcurrentConfigs == { Rule("", <<>>, "reports", "canViewFinancialReports") }
ConcurrentPartials == { [requiresRole |-> {"manager"}] }
ConcurrentCaps == { <<"inventory", "canEditProducts">> }

InitConcurrent ==
  /\ user = [exists |-> TRUE, role |-> "staff", isActive |-> TRUE,
             featurePermissions |-> NoGrants,
             discountPermissions |-> NoDiscountGrants]
  /\ tokenRole = "staff"
  /\ product = NoProduct
  /\ last = Idle
  /\ registry = routePermissions
  /\ inflight = NoInflight
  /\ transaction = NoTransaction
  /\ targetUser = NoUser

NextConcurrent ==
  \/ \E r \in RequestIds, p \in {ProductIdPath, BulkDeletePath},
        u \in UserIds :
       PassStart(r, "PUT", p, u, IF u = "u1" THEN tokenRole ELSE "manager")
  \/ \E r \in RequestIds, ok \in BOOLEAN : PassConnect(r, ok)
  \/ \E r \in RequestIds, ok \in BOOLEAN : PassFind(r, ok)
  \/ \E r \in RequestIds : PassReturn(r)
  \/ \E k \in ConcurrentRoutes, c \in ConcurrentConfigs :
       addRoutePermission(k, c)
  \/ \E k \in ConcurrentRoutes, c \in ConcurrentPartials :
       updateRoutePermission(k, c)
  \/ \E c \in ConcurrentCaps, v \in PermVals : SetPermission(c, v)

SpecConcurrent == InitConcurrent /\ [][NextConcurrent]_vars

\* --------------------------- specification of the Express middlewares
ExpressCaps ==
  { <<"inventory", "canAddProducts">>,
    <<"transactions", "canEditDrafts">>,
    <<"transactions", "canEditTransactions">> }

PermissionCheck(cap) ==
  [kind |-> "requirePermission", cap |-> cap, feature |-> "", action |-> ""]
FeatureCheck(feature, action) ==
  [kind |-> "hasSuperAdminFeatureAccess", cap |-> NoCap,
   feature |-> feature, action |-> action]
Checks ==
  { PermissionCheck(c) : c \in ExpressCaps }
  \cup { FeatureCheck(f, a) : f \in {"product_management", "unknown_feature"},
                              a \in {"create", "read"} }

\* one call of requirePermission or of hasSuperAdminFeatureAccess
Decide(check, hasUser, u) ==
  IF check.kind = "requirePermission"
    THEN LET p == requirePermission(hasUser, u, check.cap[1], check.cap[2])
         IN  [granted |-> p.next, status |-> p.resp.status]
  ELSE [granted |-> hasSuperAdminFeatureAccess(hasUser, u, check.feature,
                                               check.action),
        status |-> 0]

\* variant: the first call stores the default of the admin role in the
\* featurePermissions of the user it was given
CheckRequest_fillsDefaults(check, hasUser) ==
  /\ last = Idle
  /\ last' = [Idle EXCEPT !.op = "check", !.check = check,
                !.hdr = IF hasUser THEN "full" ELSE "none",
                !.calls = 1, !.seen = user,
                !.first = Decide(check, hasUser, user)]
  /\ user' = IF user.role = "admin" /\ check.cap \in ExpressCaps
               THEN [user EXCEPT !.featurePermissions[check.cap] = "true"]
               ELSE user
  /\ UNCHANGED <<tokenRole, product, registry, inflight, transaction,
               targetUser>>

\* the first of two calls with the same user, category and capability
CheckRequest(check, hasUser) ==
  /\ last = Idle
  /\ last' = [Idle EXCEPT !.op = "check", !.check = check,
                !.hdr = IF hasUser THEN "full" ELSE "none",
                !.calls = 1, !.seen = user,
                !.first = Decide(check, hasUser, user)]
  /\ UNCHANGED <<user, tokenRole, product, registry, inflight, transaction,
               targetUser>>

\* the second call
CheckAgain ==
  /\ last.op = "check" /\ last.calls = 1
  /\ last' = [last EXCEPT !.calls = 2,
                !.second = Decide(last.check, last.hdr = "full", user)]
  /\ UNCHANGED <<user, tokenRole, product, registry, inflight, transaction,
               targetUser>>

\* a user-management update that lands between the two calls
UpdateBetweenCalls(c, v) ==
  /\ last.op = "check" /\ last.calls = 1
  /\ user.featurePermissions[c] # v
  /\ user' = [user EXCEPT !.featurePermissions[c] = v]
  /\ UNCHANGED <<tokenRole, product, last, registry, inflight, transaction,
               targetUser>>

RoleLists ==
  { {"admin"}, {"admin", "super_admin"}, {"super_admin", "admin", "manager"},
    {"super_admin", "admin", "manager", "staff"} }

RoleRequest(roles, hasUser) ==
  /\ last = Idle
  /\ LET m == requireRole(roles, hasUser, user)
     IN last' = [Idle EXCEPT !.op = "requireRole", !.roles = roles,
                   !.hdr = IF hasUser THEN "full" ELSE "none",
                   !.resp = m.resp, !.nextCalls = m.nextCalls]
  /\ UNCHANGED <<user, tokenRole, product, registry, inflight, transaction,
               targetUser>>

AllRequest(permissions, hasUser) ==
  /\ last = Idle
  /\ LET m == requireAllPermissions(permissions, hasUser, user)
     IN last' = [Idle EXCEPT !.op = "requireAll", !.permissions = permissions,
                   !.hdr = IF hasUser THEN "full" ELSE "none",
                   !.resp = m.resp, !.nextCalls = m.nextCalls]
  /\ UNCHANGED <<user, tokenRole, product, registry, inflight, transaction,
               targetUser>>

AnyRequest(permissions, hasUser) ==
  /\ last = Idle
  /\ LET m == requireAnyPermission(permissions, hasUser, user)
     IN last' = [Idle EXCEPT !.op = "requireAny", !.permissions = permissions,
                   !.hdr = IF hasUser THEN "full" ELSE "none",
                   !.resp = m.resp, !.nextCalls = m.nextCalls]
  /\ UNCHANGED <<user, tokenRole, product, registry, inflight, transaction,
               targetUser>>

DraftEditRequest(hasUser, storeOk) ==
  /\ last = Idle
  /\ LET m == requireDraftOrEditPermission(hasUser, user, "u1", storeOk,
                                           transaction)
     IN last' = [Idle EXCEPT !.op = "draftOrEdit", !.storeOk = storeOk,
                   !.hdr = IF hasUser THEN "full" ELSE "none",
                   !.resp = m.resp, !.nextCalls = m.nextCalls]
  /\ UNCHANGED <<user, tokenRole, product, registry, inflight, transaction,
               targetUser>>

\* the transactions a request's id may name
StoredTransactions ==
  { NoTransaction }
  \cup { [exists |-> TRUE, type |-> t[1], status |-> t[2],
          paymentStatus |-> "pending", createdBy |-> c] :
          t \in { <<"DRAFT", "draft">>, <<"COMPLETED", "completed">> },
          c \in {"u1", "u2"} }

InitExpress ==
  /\ \E r \in Roles, g \in [ExpressCaps -> PermVals] :
       user = [exists |-> TRUE, role |-> r, isActive |-> TRUE,
               featurePermissions |-> g,
               discountPermissions |-> NoDiscountGrants]
  /\ tokenRole = NoRole
  /\ product = NoProduct
  /\ last = Idle
  /\ registry = routePermissions
  /\ inflight = NoInflight
  /\ transaction \in StoredTransactions
  /\ targetUser = NoUser

NextExpress ==
  \/ \E l \in RoleLists, u \in BOOLEAN : RoleRequest(l, u)
  \/ \E l \in SUBSET ExpressCaps, u \in BOOLEAN : AllRequest(l, u)
  \/ \E l \in SUBSET ExpressCaps, u \in BOOLEAN : AnyRequest(l, u)
  \/ \E u, ok \in BOOLEAN : DraftEditRequest(u, ok)
  \/ \E c \in Checks, u \in BOOLEAN : CheckRequest(c, u)
  \/ CheckAgain
  \/ \E c \in ExpressCaps, v \in PermVals : UpdateBetweenCalls(c, v)
  \/ Respond

SpecExpress == InitExpress /\ [][NextExpress]_vars

\* ------------------------------------------ specification of transactions
PayloadValues ==
  [type : {"", "DRAFT", "COMPLETED"}, status : {"", "draft", "completed"},
   paymentStatus : {"", "pending", "paid"}]

CreateTransactionRequest(valid, transactionData, storeOk) ==
  /\ last = Idle
  /\ ~transaction.exists
  /\ LET h == createTransaction(valid, transactionData, "u1", storeOk,
                                transaction)
     IN /\ last' = [Idle EXCEPT !.op = "createTransaction", !.method = "POST",
                      !.storeOk = storeOk, !.handlerRan = TRUE,
                      !.handlerResp = h.resp]
        /\ transaction' = h.tx
  /\ UNCHANGED <<user, tokenRole, product, registry, inflight, targetUser>>

UpdateTransactionRequest(idValid, updateData, storeOk) ==
  /\ last = Idle
  /\ LET h == updateTransaction(idValid, updateData, "u1", storeOk,
                                transaction)
     IN /\ last' = [Idle EXCEPT !.op = "updateTransaction", !.method = "PUT",
                      !.storeOk = storeOk, !.handlerRan = TRUE,
                      !.handlerResp = h.resp]
        /\ transaction' = h.tx
  /\ UNCHANGED <<user, tokenRole, product, registry, inflight, targetUser>>

DeleteTransactionRequest(idValid, storeOk) ==
  /\ last = Idle
  /\ LET h == deleteTransaction(idValid, storeOk, transaction)
     IN /\ last' = [Idle EXCEPT !.op = "deleteTransaction",
                      !.method = "DELETE", !.storeOk = storeOk,
                      !.handlerRan = TRUE, !.handlerResp = h.resp]
        /\ transaction' = h.tx
  /\ UNCHANGED <<user, tokenRole, product, registry, inflight, targetUser>>

InitTransaction ==
  /\ user = [exists |-> TRUE, role |-> "staff", isActive |-> TRUE,
             featurePermissions |-> NoGrants,
             discountPermissions |-> NoDiscountGrants]
  /\ tokenRole = "staff"
  /\ product = NoProduct
  /\ last = Idle
  /\ registry = routePermissions
  /\ inflight = NoInflight
  /\ transaction = NoTransaction
  /\ targetUser = NoUser

NextTransaction ==
  \/ \E v, ok \in BOOLEAN, d \in PayloadValues :
       CreateTransactionRequest(v, d, ok)
  \/ \E v, ok \in BOOLEAN, d \in PayloadValues :
       UpdateTransactionRequest(v, d, ok)
  \/ \E v, ok \in BOOLEAN : DeleteTransactionRequest(v, ok)
  \/ Respond

SpecTransaction == InitTransaction /\ [][NextTransaction]_vars

\* ------------------------------------------- specification of switch-user
TargetUsers ==
  { NoUser }
  \cup { [NoUser EXCEPT !.exists = TRUE, !.role = r, !.isActive = a] :
           r \in Roles, a \in BOOLEAN }

SwitchUserRequest(rootUserId, rootUserRole, targetUserId, storeOk, auditOk) ==
  /\ last = Idle
  /\ LET h == POST_switchUser(rootUserId, rootUserRole, targetUserId, storeOk,
                              user, targetUser, auditOk)
     IN last' = [Idle EXCEPT !.op = "switchUser", !.method = "POST",
                   !.hdr = IF rootUserId = NoRole THEN "none" ELSE "full",
                   !.claimedRole = rootUserRole,
                   !.data = [NoPayloadTarget EXCEPT !.targetUserId = targetUserId],
                   !.storeOk = storeOk, !.auditOk = auditOk,
                   !.handlerRan = TRUE, !.handlerResp = h.resp,
                   !.issued = h.issued]
  /\ UNCHANGED <<user, tokenRole, product, registry, inflight, transaction,
                 targetUser>>

InitSwitch ==
  /\ \E r \in Roles, e \in BOOLEAN :
       user = [NoUser EXCEPT !.exists = e, !.role = r, !.isActive = TRUE]
  /\ tokenRole = NoRole
  /\ product = NoProduct
  /\ last = Idle
  /\ registry = routePermissions
  /\ inflight = NoInflight
  /\ transaction = NoTransaction
  /\ targetUser \in TargetUsers

NextSwitch ==
  \/ \E id \in {NoRole, "u1"}, role \in Roles \cup {NoRole},
        t \in {"", "u2"}, ok, a \in BOOLEAN :
       SwitchUserRequest(id, role, t, ok, a)
  \/ Respond

SpecSwitch == InitSwitch /\ [][NextSwitch]_vars

\* ------------------------------------------ specification of stock addition
MaxQuantity == 2
ProductIds == {"42", "missing"}

\* addStock up to its first await: validation of the body
StockStart(r, productId, quantity) ==
  /\ inflight[r].pc = "idle"
  /\ inflight' = [inflight EXCEPT ![r] =
       LET req == [IdleRequest EXCEPT !.method = "POST", !.userId = productId,
                                      !.quantity = quantity]
       IN IF quantity = 0
            THEN [req EXCEPT !.pc = "done",
                             !.resp = Resp(400, "Product ID and quantity are required")]
          ELSE [req EXCEPT !.pc = "findById"]]
  /\ UNCHANGED <<user, tokenRole, product, last, registry, transaction,
                 targetUser>>

\* await Product.findById(productId) returns the stored fields or throws; the
\* two += run on the document in memory before the next await
StockFind(r, storeOk) ==
  /\ inflight[r].pc = "findById"
  /\ inflight' = [inflight EXCEPT ![r] =
       LET req == inflight[r]
       IN IF ~storeOk
            THEN [req EXCEPT !.pc = "done", !.storeOk = FALSE,
                             !.resp = Resp(500, "Failed to add stock")]
          ELSE IF req.userId # "42"
            THEN [req EXCEPT !.pc = "done",
                             !.resp = Resp(404, "Product not found")]
          ELSE [req EXCEPT !.pc = "save", !.found = TRUE,
                  !.read = [currentStock |-> product.currentStock + req.quantity,
                            totalQuantity |-> product.totalQuantity + req.quantity]]]
  /\ UNCHANGED <<user, tokenRole, product, last, registry, transaction,
                 targetUser>>

\* await product.save() writes the modified fields of the document in memory
StockSave(r, storeOk) ==
  /\ inflight[r].pc = "save"
  /\ IF storeOk
       THEN /\ product' = [product EXCEPT
                             !.currentStock = inflight[r].read.currentStock,
                             !.totalQuantity = inflight[r].read.totalQuantity]
            /\ inflight' = [inflight EXCEPT ![r].pc = "done",
                                            ![r].resp = Ok]
       ELSE /\ product' = product
            /\ inflight' = [inflight EXCEPT ![r].pc = "done",
                              ![r].storeOk = FALSE,
                              ![r].resp = Resp(500, "Failed to add stock")]
  /\ UNCHANGED <<user, tokenRole, last, registry, transaction, targetUser>>

\* last.prior keeps the stock the two requests started from
InitStock ==
  /\ user = [exists |-> TRUE, role |-> "staff", isActive |-> TRUE,
             featurePermissions |-> NoGrants,
             discountPermissions |-> NoDiscountGrants]
  /\ tokenRole = "staff"
  /\ \E n \in 0..MaxStock :
       /\ product = [name |-> "old", costPrice |-> 1, currentStock |-> n,
                     isDeleted |-> FALSE, totalQuantity |-> n]
       /\ last = [Idle EXCEPT !.prior = product]
  /\ registry = routePermissions
  /\ inflight = NoInflight
  /\ transaction = NoTransaction
  /\ targetUser = NoUser

NextStock ==
  \/ \E r \in RequestIds, p \in ProductIds, q \in 0..MaxQuantity :
       StockStart(r, p, q)
  \/ \E r \in RequestIds, ok \in BOOLEAN : StockFind(r, ok)
  \/ \E r \in RequestIds, ok \in BOOLEAN : StockSave(r, ok)

SpecStock == InitStock /\ [][NextStock]_vars

\* =================================================================== claims
Range(seq) == { seq[i] : i \in 1..Len(seq) }
Resolved == user.exists /\ user.isActive
GuardOps == {"protected", "guardedDelete"}
AddOnly == [NoGrants EXCEPT ![<<"inventory", "canAddProducts">>] = "true"]
Refused(l) ==
  l.resp.status \in {401, 403} \/ l.handlerResp.status \in {401, 403}

\* C1: a principal whose role is super_admin is allowed by the permission
\* decision of the super-admin guard and of checkPermission, for every
\* feature, method and path and whatever its featurePermissions hold, and
\* no grant is evaluated on the way.
SuperAdminAlwaysAllowed ==
  /\ ( /\ last.op \in GuardOps /\ last.hdr = "full" /\ last.storeOk
       /\ Resolved /\ user.role = "super_admin" )
       => ( /\ last.resp = Null /\ last.handlerRan
            /\ "evaluate" \notin Range(last.steps) )
  /\ (last.op = "api" /\ last.claimedRole = "super_admin")
       => ( /\ last.resp = Null /\ last.handlerRan
            /\ "evaluate" \notin Range(last.steps) )

SuperAdminExplicitFalseAllowed ==
  /\ last.op = "protected" /\ last.feature = "product_management"
  /\ user.role = "super_admin"
  /\ user.featurePermissions[<<"inventory", "canAddProducts">>] = "false"
  /\ last.handlerRan

StaffAddOnlyCannotDelete ==
  ( /\ Resolved /\ user.role = "staff" /\ user.featurePermissions = AddOnly
    /\ last.hdr = "full" /\ last.storeOk )
  => /\ (last.op = "api" /\ last.method = "POST" /\ last.path = ProductsPath)
          => last.handlerRan
     /\ ( \/ last.op = "guardedDelete"
          \/ (last.op = "api" /\ last.method = "DELETE" /\ last.path = ProductIdPath)
          \/ (last.op = "api" /\ last.method = "POST" /\ last.path = BulkDeletePath) )
          => (Refused(last) /\ last.handlerResp.status # 200)

MissingIdentityAlwaysRejected ==
  (last.op = "api" /\ last.hdr # "full")
    => (last.resp.status = 401 /\ last.steps = <<>> /\ ~last.handlerRan)

\* C5 (amended): every operation outside the skipped prefixes (/api/auth/,
\* /api/health) that carries no identity reference fails with 401 before
\* any registry lookup, store read or evaluation, and its handler never
\* runs; an Express request without a token fails with 401 likewise.
MissingIdentityRejected ==
  /\ (last.op = "api" /\ last.hdr # "full" /\ ~skipPermissionCheck(last.path))
       => ( /\ last.resp.status = 401 /\ last.resp.code = "USER_INFO_MISSING"
            /\ last.steps = <<>> /\ ~last.handlerRan )
  /\ (last.op = "express" /\ last.hdr # "full")
       => (last.resp.status = 401 /\ last.steps = <<>> /\ ~last.handlerRan)

RoleHeaderMissingRejected ==
  /\ last.op = "api" /\ last.hdr = "idOnly" /\ last.path = ProductIdPath
  /\ last.resp.status = 401 /\ ~last.handlerRan

\* C6: an identity that does not resolve to a principal, or resolves to a
\* deactivated one, is refused for every operation outside the skipped
\* prefixes and never proceeds to the handler.
UnresolvedPrincipalRejected ==
  /\ ( /\ last.op = "api" /\ last.hdr = "full" /\ last.storeOk
       /\ ~skipPermissionCheck(last.path) /\ ~Resolved )
       => (last.resp # Null /\ ~last.handlerRan)
  /\ (last.op = "express" /\ last.hdr = "full" /\ last.storeOk /\ ~Resolved)
       => (last.resp # Null /\ ~last.handlerRan)

\* C7: a failed principal-store read during enforcement yields an error
\* response, never Proceed, and the handler does not run.
StoreFailureFailsClosed ==
  (last.op # "idle" /\ ~last.storeOk /\ "storeRead" \in Range(last.steps))
    => ( /\ last.resp # Null /\ last.resp.status = 500
         /\ ~last.handlerRan /\ last.handlerResp = Null )

StoreFailureDuringCheck ==
  /\ last.op = "api" /\ ~last.storeOk /\ "storeRead" \in Range(last.steps)
  /\ last.resp.code = "PERMISSION_CHECK_ERROR" /\ ~last.handlerRan

\* C8: a pass decides on the role and grants the store holds when the pass
\* runs: a request that proceeds on a route with a capability rule is made
\* by a stored principal that holds the capability (or is super_admin) now.
NoStaleGrant ==
  ( /\ last.op = "api" /\ last.hdr = "full" /\ last.storeOk
    /\ ~skipPermissionCheck(last.path)
    /\ getRoutePermission(last.method, last.path) # NoConfig
    /\ last.handlerRan )
  => LET cfg == getRoutePermission(last.method, last.path)
     IN user.exists /\ hasPermission(user, cfg.category, cfg.permission)

EditWithoutCostPrice ==
  /\ last.hdr = "full" /\ last.storeOk /\ Resolved
  /\ hasPermission(user, "inventory", "canEditProducts")
  /\ ~hasPermission(user, "inventory", "canEditCostPrices")
NameApplied ==
  last.data.name.present => product.name = last.data.name.val

\* C9: after an update by a principal that holds canEditProducts and lacks
\* canEditCostPrices, the stored costPrice is the one before the update,
\* for every payload, and the other fields of the payload are applied.
CostPriceKeptOnUpdate ==
  ( /\ last.op \in {"put", "updateProduct"} /\ EditWithoutCostPrice
    /\ last.handlerResp.status = 200 )
  => (product.costPrice = last.prior.costPrice /\ NameApplied)

\* C10: an update that changes the cost price, by a principal lacking
\* canEditCostPrices, succeeds as a whole: the cost price keeps its value
\* and the other fields of the payload are persisted.
GatedChangeNotRejected ==
  ( /\ last.op \in {"put", "updateProduct"} /\ EditWithoutCostPrice
    /\ last.auditOk
    /\ last.data.costPrice.present
    /\ last.data.costPrice.val # last.prior.costPrice )
  => ( /\ last.handlerResp.status = 200
       /\ product.costPrice = last.prior.costPrice
       /\ NameApplied )

\* ---------------------------------------------------------- audit events
GatedFields == {"costPrice", "currentStock"}
StricterCap(f) ==
  IF f = "costPrice" THEN "canEditCostPrices" ELSE "canManageStock"
Overrides(f) == Cardinality({ i \in 1..Len(last.events) : last.events[i] = f })
EditAllowed ==
  /\ last.op = "put" /\ last.hdr = "full" /\ last.storeOk /\ Resolved
  /\ hasPermission(user, "inventory", "canEditProducts")
Proposed(f) == last.data[f].present
Differs(f) == Proposed(f) /\ last.data[f].val # last.prior[f]
HoldsStricter(f) == hasPermission(user, "inventory", StricterCap(f))

\* C11: in an update of the product route, each gated field (costPrice,
\* currentStock) that is reverted has exactly one override event, and a
\* gated field whose proposed value equals the stored one, or whose
\* stricter capability the principal holds, has no override event and is
\* written as proposed.
OverrideEventExactlyOnce ==
  EditAllowed =>
    \A f \in GatedFields :
      /\ (Differs(f) /\ ~HoldsStricter(f) /\ last.handlerResp.status = 200)
           => (product[f] = last.prior[f] /\ Overrides(f) = 1)
      /\ (Proposed(f) /\ (~Differs(f) \/ HoldsStricter(f)))
           => ( /\ Overrides(f) = 0
                /\ last.handlerResp.status = 200
                      => product[f] = last.data[f].val )
      /\ Overrides(f) <= 1

\* witness of C11: one update reverts costPrice with its single event
\* while currentStock, changed by a holder of canManageStock, is written
CostRevertedStockWritten ==
  /\ EditAllowed /\ last.handlerResp.status = 200
  /\ Differs("costPrice") /\ ~HoldsStricter("costPrice")
  /\ Overrides("costPrice") = 1
  /\ Differs("currentStock") /\ HoldsStricter("currentStock")
  /\ product.currentStock = last.data.currentStock.val
  /\ user.role # "super_admin"

\* C12: when the audit sink fails while the override of a gated field is
\* recorded, the update still answers 200 and the non-gated fields of the
\* payload are stored.
AuditFailureNeverFailsUpdate ==
  ( /\ EditAllowed /\ ~last.auditOk
    /\ \E f \in GatedFields : Differs(f) /\ ~HoldsStricter(f) )
    => (last.handlerResp.status = 200 /\ NameApplied)

\* ------------------------------------------------------ discount claims
Asked == last.discount
Grants == user.discountPermissions
AskedKind == IF Asked.type = DefaultKind THEN "bill" ELSE Asked.type
OtherGate ==
  IF AskedKind = "product" THEN "canApplyBillDiscounts"
  ELSE "canApplyProductDiscounts"
NoOverride ==
  /\ last.op = "discount"
  /\ user.role # "super_admin" /\ ~Grants.unlimitedDiscounts
PercentExceeded == Asked.percent > Grants.maxDiscountPercent
AmountExceeded == Asked.amount > Grants.maxDiscountAmount

\* C13: without the override and with the gate of the kind true, the
\* request is allowed exactly when percent <= maxDiscountPercent and
\* amount <= maxDiscountAmount (both inclusive); a denial names a bound
\* that was exceeded, the percent bound when only the percent exceeds and
\* the amount bound when only the amount exceeds.
DiscountBoundsInclusive ==
  (NoOverride /\ Grants[KindGate(AskedKind)]) =>
    /\ Asked.verdict.allowed <=> (~PercentExceeded /\ ~AmountExceeded)
    /\ (PercentExceeded /\ ~AmountExceeded)
         => Asked.verdict.reason = "percent bound exceeded"
    /\ (AmountExceeded /\ ~PercentExceeded)
         => Asked.verdict.reason = "amount bound exceeded"
    /\ (PercentExceeded /\ AmountExceeded)
         => Asked.verdict.reason \in {"percent bound exceeded",
                                      "amount bound exceeded"}

\* witness of C13: a request exactly on both positive bounds is allowed
DiscountOnBothBoundsAllowed ==
  /\ NoOverride /\ Grants[KindGate(AskedKind)]
  /\ Grants.maxDiscountPercent > 0 /\ Grants.maxDiscountAmount > 0
  /\ Asked.percent = Grants.maxDiscountPercent
  /\ Asked.amount = Grants.maxDiscountAmount
  /\ Asked.verdict.allowed

\* C14: a principal with unlimitedDiscounts, and a super_admin, is allowed
\* for every percent and amount, and the decision is taken before the gate
\* of the kind and the bounds are read.
UnlimitedDiscountAlwaysAllowed ==
  ( /\ last.op = "discount"
    /\ (Grants.unlimitedDiscounts \/ user.role = "super_admin") )
  => (Asked.verdict.allowed /\ Asked.verdict.steps = <<"override">>)

\* witness of C14: a staff principal with unlimitedDiscounts and a false
\* gate is allowed above both bounds
UnlimitedAboveBoundsAllowed ==
  /\ last.op = "discount" /\ user.role = "staff"
  /\ Grants.unlimitedDiscounts /\ ~Grants[KindGate(AskedKind)]
  /\ PercentExceeded /\ AmountExceeded
  /\ Asked.verdict.allowed

\* C15: without the override and with the gate of the kind false, a
\* request for a positive discount is denied with reason "discount type
\* not permitted" whatever the bounds, and the gate of the other kind is
\* not read.
DiscountKindGateDenies ==
  ( /\ NoOverride /\ ~Grants[KindGate(AskedKind)]
    /\ (Asked.percent > 0 \/ Asked.amount > 0) )
  => ( /\ ~Asked.verdict.allowed
       /\ Asked.verdict.reason = "discount type not permitted"
       /\ OtherGate \notin Range(Asked.verdict.steps) )

\* witness of C15: a product discount within both bounds is denied while
\* the bill gate is true
ProductGateFalseBillGateTrue ==
  /\ NoOverride /\ Asked.type = "product"
  /\ ~Grants.canApplyProductDiscounts /\ Grants.canApplyBillDiscounts
  /\ Asked.percent > 0 /\ Asked.amount > 0
  /\ ~PercentExceeded /\ ~AmountExceeded
  /\ ~Asked.verdict.allowed

\* C16: a request whose percent and amount are both zero or negative is
\* allowed for every principal.
NoDiscountAlwaysAllowed ==
  (last.op = "discount" /\ Asked.percent <= 0 /\ Asked.amount <= 0)
    => Asked.verdict.allowed

\* witness of C16: a principal without any discount grant asks for a
\* negative percent and a zero amount and is allowed
NoGrantNegativeAllowed ==
  /\ last.op = "discount" /\ user.role = "staff"
  /\ Grants = NoDiscountGrants
  /\ Asked.percent < 0 /\ Asked.amount = 0
  /\ Asked.verdict.allowed

\* ------------------------------------------------------- registry claims
ProductPattern == <<"", "products", "[id]">>
SegmentwiseEqual(path, pattern) ==
  /\ Len(path) = Len(pattern)
  /\ \A i \in 1..Len(pattern) :
       IsPlaceholder(pattern[i]) \/ pattern[i] = path[i]

\* C17: a pattern matches a path exactly when both have the same number
\* of segments and every segment of the pattern that is not a placeholder
\* equals the segment of the path at its position; /products/[id] matches
\* /products/abc123 and neither /products/abc123/stock nor /products.
PatternMatchSegmentwise ==
  last.op = "match" =>
    /\ last.matched <=> SegmentwiseEqual(last.path, last.pattern)
    /\ (last.pattern = ProductPattern
          /\ last.path = <<"", "products", "abc123">>) => last.matched
    /\ (last.pattern = ProductPattern
          /\ last.path \in { <<"", "products", "abc123", "stock">>,
                             <<"", "products">> }) => ~last.matched

\* witness of C17: the longer path was tried against /products/[id]
LongerPathNotMatched ==
  /\ last.op = "match" /\ last.pattern = ProductPattern
  /\ last.path = <<"", "products", "abc123", "stock">>
  /\ ~last.matched

RuleMatches(i) ==
  /\ registry[i].method = last.method
  /\ SegmentwiseEqual(last.path, registry[i].path)
ExactRules ==
  { i \in 1..Len(registry) :
      registry[i].method = last.method /\ registry[i].path = last.path }
MatchingRules == { i \in 1..Len(registry) : RuleMatches(i) }

\* C18: lookup(method, path) returns the rule stored under exactly that
\* method and path when there is one; otherwise the first rule in
\* registration order with that method whose pattern matches the path;
\* otherwise no rule. A rule of another method is never returned.
LookupExactThenFirstPattern ==
  last.op = "lookup" =>
    /\ ExactRules # {} => \E i \in ExactRules : last.rule = registry[i]
    /\ (ExactRules = {} /\ MatchingRules # {}) =>
         \E i \in MatchingRules :
           /\ \A j \in MatchingRules : i <= j
           /\ last.rule = registry[i]
    /\ MatchingRules = {} => last.rule = NoConfig
    /\ last.rule # NoConfig => last.rule.method = last.method

\* witness of C18: the exact rule is returned although a matching pattern
\* rule was registered before it
ExactRuleAfterPatternReturned ==
  /\ last.op = "lookup" /\ last.rule # NoConfig
  /\ last.rule.path = last.path
  /\ \E i \in MatchingRules, j \in ExactRules :
       i < j /\ registry[i] # registry[j]

\* C19: when the registry holds no rule for the method and path of a
\* request that carries an identity, the request is allowed and neither
\* the principal store nor a capability is read.
UnmatchedOperationAllowed ==
  ( /\ last.op = "api" /\ last.hdr = "full"
    /\ ~skipPermissionCheck(last.path)
    /\ getRoutePermission(last.method, last.path) = NoConfig )
  => ( /\ last.resp = Null /\ last.handlerRan
       /\ "storeRead" \notin Range(last.steps)
       /\ "evaluate" \notin Range(last.steps) )

\* witness of C19: a staff principal without grants posts to bulk-delete,
\* which has no rule, and is passed on after the lookup
StaffUnmatchedRoutePassed ==
  /\ last.op = "api" /\ last.method = "POST" /\ last.path = BulkDeletePath
  /\ last.claimedRole = "staff" /\ user.featurePermissions = NoGrants
  /\ last.resp = Null /\ last.handlerRan /\ last.steps = <<"lookup">>

\* C20: when the rule of the operation is a role requirement, a principal
\* whose stored role is in the set is allowed and a principal whose stored
\* role is neither in the set nor super_admin is denied with 403.
RoleRuleDecidesOnStoredRole ==
  ( /\ last.op = "api" /\ last.hdr = "full" /\ last.storeOk /\ Resolved
    /\ getRoutePermission(last.method, last.path).requiresRole # NoRoles )
  => LET allowed == getRoutePermission(last.method, last.path).requiresRole
     IN  IF user.role \in allowed
           THEN last.resp = Null /\ last.handlerRan
         ELSE user.role # "super_admin"
                => (last.resp.status = 403 /\ ~last.handlerRan)

\* the full path of checkPermission: what it answers for the same request
\* when the role header does not take the super_admin return of lines
\* 151-154 (the header role is read nowhere after that test)
checkPermission_fullPath(method, pathname, userId, userRole, storeOk, dbUser) ==
  checkPermission(method, pathname, userId,
                  IF userRole = "super_admin" THEN "bypassed" ELSE userRole,
                  storeOk, dbUser)

\* C21: for every request the answer of checkPermission with the
\* super_admin short-circuit equals the answer of its full path (store
\* read, rule lookup, evaluation); a request it lets through by the
\* short-circuit resolves in the store with role super_admin.
ShortCircuitEqualsFullPath ==
  (last.op = "api" /\ last.claimedRole = "super_admin") =>
    /\ last.resp = checkPermission_fullPath(last.method, last.path, "u1",
                     last.claimedRole, last.storeOk, user).resp
    /\ (last.resp = Null /\ ~skipPermissionCheck(last.path))
         => (user.exists /\ user.role = "super_admin")

\* C22: every rule stored in the registry (initial table, addRoutePermission,
\* updateRoutePermission) names a (category, capability) pair of the catalog
\* and lists only known roles.
RegisteredRulesInCatalog ==
  \A i \in 1..Len(registry) :
    /\ registry[i].category # ""
         => <<registry[i].category, registry[i].permission>> \in Catalog
    /\ registry[i].requiresRole \subseteq Roles

\* ---------------------------------------------------- concurrency claims
\* C23: under every interleaving of the passes with each other, with
\* changes of the principals and with addRoutePermission and
\* updateRoutePermission, a finished pass has the outcome of the rule it
\* looked up evaluated on the principal it read.
PassOutcomeAsAlone ==
  \A r \in RequestIds :
    (inflight[r].pc = "done" /\ inflight[r].found) =>
      inflight[r].resp = evaluateRule(inflight[r].permissionConfig,
                                      inflight[r].storeOk,
                                      inflight[r].principal)

\* witness of C23: a pass finished on the rule it had looked up although
\* the registry now holds another rule for its route, while the other
\* pass is still in flight
PassFinishedOnReplacedRule ==
  \E r \in RequestIds, q \in RequestIds :
    /\ r # q
    /\ inflight[r].pc = "done" /\ inflight[r].found /\ inflight[r].storeOk
    /\ inflight[r].permissionConfig
         # getRoutePermission(inflight[r].method, inflight[r].path)
    /\ inflight[r].resp
         # evaluateRule(getRoutePermission(inflight[r].method,
                                           inflight[r].path),
                        TRUE, inflight[r].principal)
    /\ inflight[q].pc \in {"dbConnect", "findById"}

MayEditTransaction ==
  /\ last.hdr = "full" /\ transaction.exists
  /\ \/ /\ transaction.status = "draft"
        /\ hasPermission(user, "transactions", "canEditDrafts")
        /\ transaction.createdBy = "u1"
     \/ /\ transaction.status # "draft"
        /\ hasPermission(user, "transactions", "canEditTransactions")

\* C25 as stated: next exactly in the two cases; 401 with no user, 404 with
\* an unknown transaction, otherwise 403; next at most once.
DraftOrEditAnswers401_404_403 ==
  last.op = "draftOrEdit" =>
    /\ last.nextCalls <= 1
    /\ (last.nextCalls = 1) <=> MayEditTransaction
    /\ last.nextCalls = 0 =>
         last.resp.status = IF last.hdr = "none" THEN 401
                            ELSE IF ~transaction.exists THEN 404
                            ELSE 403

\* C25 amended: next exactly in the two cases when the transaction was read;
\* 401 with no user, 500 when the read of the transaction fails, 404 with an
\* unknown transaction, otherwise 403; next at most once.
DraftOrEditDecision ==
  last.op = "draftOrEdit" =>
    /\ last.nextCalls <= 1
    /\ (last.nextCalls = 1) <=> (MayEditTransaction /\ last.storeOk)
    /\ last.nextCalls = 0 =>
         last.resp.status = IF last.hdr = "none" THEN 401
                            ELSE IF ~last.storeOk THEN 500
                            ELSE IF ~transaction.exists THEN 404
                            ELSE 403

\* witness of C25: a holder of canEditDrafts was refused the draft of
\* another user
ForeignDraftRefused ==
  /\ last.op = "draftOrEdit" /\ last.hdr = "full" /\ last.storeOk
  /\ transaction.exists /\ transaction.status = "draft"
  /\ transaction.createdBy = "u2"
  /\ hasPermission(user, "transactions", "canEditDrafts")
  /\ last.nextCalls = 0 /\ last.resp.status = 403

HoldsPair(p) == hasPermission(user, p[1], p[2])

\* C26: requireAllPermissions calls next exactly when the user holds every
\* listed pair, requireAnyPermission exactly when the user holds at least one;
\* otherwise 403, or 401 with no user; an empty list allows under All and
\* denies under Any.
AllAndAnyPermissions ==
  /\ last.op = "requireAll" =>
       /\ (last.nextCalls = 1) <=>
            (last.hdr = "full" /\ \A p \in last.permissions : HoldsPair(p))
       /\ last.nextCalls \in {0, 1}
       /\ last.nextCalls = 0 =>
            last.resp.status = IF last.hdr = "none" THEN 401 ELSE 403
       /\ (last.hdr = "full" /\ last.permissions = {}) => last.nextCalls = 1
  /\ last.op = "requireAny" =>
       /\ (last.nextCalls = 1) <=>
            (last.hdr = "full" /\ \E p \in last.permissions : HoldsPair(p))
       /\ last.nextCalls \in {0, 1}
       /\ last.nextCalls = 0 =>
            last.resp.status = IF last.hdr = "none" THEN 401 ELSE 403
       /\ (last.hdr = "full" /\ last.permissions = {}) =>
            (last.nextCalls = 0 /\ last.resp.status = 403)

\* witness of C26: requireAnyPermission passed a user holding one of two
\* listed pairs
AnyPassedWithOneOfTwo ==
  /\ last.op = "requireAny" /\ last.hdr = "full"
  /\ user.role # "super_admin"
  /\ Cardinality(last.permissions) = 2
  /\ Cardinality({ p \in last.permissions : HoldsPair(p) }) = 1
  /\ last.nextCalls = 1

\* C30: requireRole calls next exactly when a user is attached and its role
\* is in the list; 401 with no user, 403 otherwise; super_admin is rejected
\* where the list does not name it.
RequireRoleLiteral ==
  last.op = "requireRole" =>
    /\ (last.nextCalls = 1) <=> (last.hdr = "full" /\ user.role \in last.roles)
    /\ last.nextCalls \in {0, 1}
    /\ last.nextCalls = 0 =>
         last.resp.status = IF last.hdr = "none" THEN 401 ELSE 403

\* witness of C30: a super_admin refused by requireRole('admin')
SuperAdminRefusedOnAdminRoute ==
  /\ last.op = "requireRole" /\ last.hdr = "full"
  /\ last.roles = {"admin"} /\ user.role = "super_admin"
  /\ last.nextCalls = 0 /\ last.resp.status = 403

\* ------------------------------------------------------- transaction claims
\* C27: after any sequence of create and update operations no stored
\* transaction has paymentStatus 'paid' together with type 'DRAFT' or status
\* 'draft'.
PaidNeverDraft ==
  (transaction.exists /\ transaction.paymentStatus = "paid") =>
    (transaction.type # "DRAFT" /\ transaction.status # "draft")

\* ------------------------------------------------------- switch-user claims
\* C28: a switch to a target with a root-level role is rejected with
\* INVALID_TARGET and issues no tokens, so no switch yields a session with a
\* role at or above admin; non-root callers and inactive targets are
\* rejected.
SwitchNeverYieldsRootSession ==
  last.op = "switchUser" =>
    /\ last.issued \notin RootRoles
    /\ (last.data.targetUserId # "" /\ last.handlerResp.status \notin {403, 404, 500}
          /\ targetUser.isActive /\ targetUser.role \in RootRoles)
         => last.handlerResp.code = "INVALID_TARGET"
    /\ (last.claimedRole \notin RootRoles \/ ~targetUser.isActive)
         => last.issued = NoRole

\* ------------------------------------------------------ stock addition claims
\* C29: two concurrent addStock requests that both report success leave
\* currentStock and totalQuantity increased by the sum of their quantities.
NoStockAdditionLost ==
  (\A r \in RequestIds : inflight[r].pc = "done" /\ inflight[r].resp = Ok) =>
    /\ product.currentStock =
         last.prior.currentStock + inflight["r1"].quantity
                                 + inflight["r2"].quantity
    /\ product.totalQuantity =
         last.prior.totalQuantity + inflight["r1"].quantity
                                  + inflight["r2"].quantity

====
